---- MODULE Spec2Model ----
(***************************************************************************)
(* A model of the FSM interactor: regions, event specifications, actions,  *)
(* transitions, states, the FSM step (FSM.actOnEvent) and the translation  *)
(* of raw pointer samples into FSM events (FSMInteractor).                  *)
(*                                                                         *)
(* Several method bodies of the sources are placeholders ("YOUR CODE       *)
(* HERE", followed where needed by a "return false" that only makes the    *)
(* file compile).  The variable build says which program is modelled:      *)
(*   "skeleton"  - the sources exactly as they are, placeholders included; *)
(*   "completed" - the same sources with every placeholder filled in as    *)
(*                 the comments of the method and the specification say.   *)
(* Every definition named ..._completed or ..._hole is such a filling; all *)
(* other definitions are translations of source code.                      *)
(***************************************************************************)
EXTENDS Integers, Sequences, FiniteSets, TLC

VARIABLES
    build,          \* "skeleton" | "completed"
    states,         \* FSM._states after FSM._finalize (bound transitions)
    errs,           \* the diagnostics given to Err.emit so far
    currentState,   \* FSM._currentState: an index into states, 0 = undefined
    regs,           \* FSM._regions: index -> the fields of the Region
    pending,        \* image loads in flight: <<region, locator>> -> count
    cache,          \* Region._imageCache: locator -> "absent" | "undef" | image
    inside,         \* FSMInteractor's bookkeeping: the previous pick list
    lastCall,       \* the last call made on the program, with its result
    delivered,      \* the events given to FSM.actOnEvent during the last call
    fired,          \* the transitions taken during the last call
    executed,       \* the actions executed during the last call
    ranIn,          \* the current state each of them was executed in
    handleMethod,   \* Err._handleMethod
    json,           \* the json document FSM.fromJson is called on
    built,          \* what each call of FSM.fromJson so far has returned
    damageCalls,    \* the regions whose damage() was called during the last call
    root,           \* the Root object and the trace of the last call made on it
    entered         \* history: the regions whose last enter or exit event
                    \* delivered was an enter

vars == <<build, states, errs, currentState, regs, pending, cache, inside,
          lastCall, delivered, fired, executed, ranIn, handleMethod, json,
          built, damageCalls, root, entered>>

----------------------------------------------------------------------------
(* Bounds of the model *)

\* most transitions of the start state in the documents that are explored
MaxTrans == 2
\* raw samples have 0 <= x <= MaxCoord (and 0 <= y <= 1)
MaxCoord == 3
\* most image loads in flight at the same time
MaxLoads == 1
\* the number of times FSM.fromJson is called on the document
MaxBuilds == 2

----------------------------------------------------------------------------
(* Vocabulary *)

EventTypes == {"press", "release", "release_none", "enter", "exit",
               "move_inside", "any", "nevermatch"}

ActionTypes == {"set_image", "clear_image", "none", "print", "print_event",
                "set_emoji", "clear_emoji", "move_region"}

RawKinds == {"press", "move", "release"}

\* the natural size of the image found at a locator
ImageSize(loc) == IF loc = "one.png" THEN [w |-> 1, h |-> 1]
                  ELSE [w |-> 2, h |-> 1]

Locators == {"", "one.png", "two.png"}

\* The region declarations every explored FSM is built from (drawing order).
\* r1 and r2 overlap at (1,1); r3 takes its size from its image.
RegionDocs ==
    << [name |-> "r1", x |-> 0, y |-> 0, w |-> 2, h |-> 2, imageLoc |-> ""],
       [name |-> "r2", x |-> 1, y |-> 1, w |-> 2, h |-> 1, imageLoc |-> ""],
       [name |-> "r3", x |-> 1, y |-> 1, w |-> 0 - 1, h |-> 0 - 1,
        imageLoc |-> "one.png"] >>

RegionIds == 1 .. Len(RegionDocs)

RegionNameStrings == {"", "*", "r1", "r2", "r3", "zz"}

Act(a, r, p) == [act |-> a, region |-> r, param |-> p]

Tr(target, evtType, region, actions) ==
    [target |-> target, evtType |-> evtType, region |-> region,
     actions |-> actions]

\* The transitions the start state of an explored document is made of.  Each
\* changes at most the image of r1.
MasterList ==
    << Tr("s1", "any", "*", <<>>),
       Tr("s1", "press", "r1", <<Act("set_image", "r1", "two.png")>>),
       Tr("s0", "press", "*", <<Act("clear_image", "r1", ""),
                                Act("print", "", "hello")>>),
       Tr("nowhere", "any", "*", <<Act("set_image", "r1", "two.png")>>),
       Tr("s1", "nevermatch", "", <<Act("print", "", "never")>>),
       Tr("s1", "release_none", "", <<Act("print_event", "", "evt")>>),
       Tr("s0", "enter", "r2", <<Act("set_image", "zz", "two.png"),
                                 Act("none", "", "")>>) >>

\* len transitions of the master list, from the one at start on, forwards
\* (dir = 1) or backwards (dir = -1), going round at its ends
Window(start, len, dir) ==
    [j \in 1 .. len |->
        MasterList[((start - 1 + dir * (j - 1) + len * Len(MasterList))
                        % Len(MasterList)) + 1]]

\* the second state of an explored document
SecondState ==
    [name |-> "s1",
     transitions |-> << Tr("s0", "any", "*",
                           <<Act("clear_image", "r1", ""),
                             Act("print_event", "", "back")>>) >>]

\* one state whose only transition loops back to it on any event of any
\* region, without actions or with the print_event action of test1
SelfLoopDocs ==
    { << [name |-> "s0", transitions |-> << Tr("s0", "any", "*", acts) >>] >> :
        acts \in { <<>>, << Act("print_event", "", "evt--->") >> } }

\* the state lists given to the FSM constructor: none, one self-looping
\* state, or two states
StateDocs ==
    { <<>> } \cup SelfLoopDocs
    \cup { << [name |-> "s0", transitions |-> Window(i, k, d)], SecondState >> :
             i \in 1 .. Len(MasterList), k \in 0 .. MaxTrans, d \in {1, 0 - 1} }

\* the state lists the raw samples are dispatched to
DispatchDocs ==
    { << [name |-> "s0", transitions |-> Window(i, k, 1)], SecondState >> :
        i \in {1, 3, 6}, k \in 1 .. MaxTrans }

\* single transitions with every kind of event specification
WidePool ==
    { Tr("s0", k, n, <<Act("set_image", "r1", "two.png")>>) :
        k \in EventTypes, n \in RegionNameStrings }

\* state lists of one state with one transition, for the calls of match
MatchDocs == { << [name |-> "s0", transitions |-> <<t>>] >> : t \in WidePool }

\* the actions that are executed one by one: image actions on r1 and on a
\* region that does not exist, and actions that use no region, with the name
\* of a region, of no region, or none
ActionPool ==
    << Act("set_image", "r1", "two.png"),
       Act("set_image", "r1", "one.png"),
       Act("clear_image", "r1", ""),
       Act("set_image", "r1", ""),
       Act("set_image", "zz", "two.png"),
       Act("clear_image", "zz", ""),
       Act("print", "r1", "x"),
       Act("print_event", "yy", "y"),
       Act("none", "r2", ""),
       Act("print", "", "z") >>

\* one state whose transition carries these actions
ActionDocs ==
    { << [name |-> "s0",
          transitions |-> << Tr("s0", "any", "*", ActionPool) >>] >> }

----------------------------------------------------------------------------
(* Name lookup *)

RECURSIVE IndexOfName(_, _, _)
\* the index of the first element of list whose name is name, from i on; 0 if none
IndexOfName(list, name, i) ==
    IF i > Len(list) THEN 0
    ELSE IF list[i].name = name THEN i
    ELSE IndexOfName(list, name, i + 1)

----------------------------------------------------------------------------
(* Region: construction and image loading *)

\* The program state a call works on: m.cur is FSM._currentState, m.regs the
\* regions, m.pending and m.cache the image loads, m.errs the diagnostics, and
\* m.fired / m.executed what the call has done so far, m.damage the regions
\* whose damage() it has called.

\* Region.damage: the call is recorded.  The body is a placeholder; filled in,
\* it passes the notification to the parent FSM.
Region_damage(m, r) == [m EXCEPT !.damage = Append(@, r)]

\* a Region object before its constructor has run
Blank == [name |-> "", imageLoc |-> "", resizedByImage |-> FALSE,
          x |-> 0, y |-> 0, w |-> 0, h |-> 0, image |-> "",
          imageComplete |-> FALSE, loaded |-> FALSE, loadError |-> FALSE]

\* a resize that happens once: a region that has a size keeps it
Region__resizeFromImage_once(g) ==
    IF g.resizedByImage /\ g.loaded /\ g.image # "" /\ g.w = 0 /\ g.h = 0
    THEN [g EXCEPT !.w = ImageSize(g.image).w, !.h = ImageSize(g.image).h]
    ELSE g

\* Region._resizeFromImage and the size setter it uses.  An image object whose
\* load has not completed has width and height 0.
Region__resizeFromImage(g) ==
    IF g.resizedByImage /\ g.loaded /\ g.image # ""
    THEN LET sz == IF g.imageComplete THEN ImageSize(g.image)
                   ELSE [w |-> 0, h |-> 0]
         IN  IF sz.w # g.w \/ sz.h # g.h
             THEN [g EXCEPT !.w = sz.w, !.h = sz.h]
             ELSE g
    ELSE g

\* a load that is over when the method returns, whatever the cache holds
Region__startImageLoad_eager(m, r) ==
    LET g == m.regs[r]
    IN  Region_damage(
            [m EXCEPT !.regs[r] = Region__resizeFromImage(
                [g EXCEPT !.image = g.imageLoc,
                          !.imageComplete = (g.imageLoc # ""),
                          !.loaded = TRUE, !.loadError = FALSE])], r)

\* Region._startImageLoad up to its await: the empty locator, a cached
\* locator, or a new image object whose load is started.
Region__startImageLoad(m, r) ==
    LET g == m.regs[r]
    IN  IF g.imageLoc = ""
        THEN Region_damage(
                 [m EXCEPT !.regs[r] = Region__resizeFromImage(
                    [g EXCEPT !.image = "", !.imageComplete = FALSE,
                              !.loaded = TRUE, !.loadError = FALSE])], r)
        ELSE IF m.cache[g.imageLoc] # "absent"
        THEN LET img == IF m.cache[g.imageLoc] = "undef" THEN ""
                        ELSE m.cache[g.imageLoc]
             IN  Region_damage(
                    [m EXCEPT !.regs[r] = Region__resizeFromImage(
                       [g EXCEPT !.image = img, !.imageComplete = (img # ""),
                                 !.loaded = TRUE, !.loadError = FALSE])], r)
        ELSE [m EXCEPT !.regs[r] =
                    [g EXCEPT !.image = g.imageLoc, !.imageComplete = FALSE,
                              !.loaded = FALSE, !.loadError = FALSE],
                       !.pending[<<r, g.imageLoc>>] = @ + 1]

\* The Region constructor: the fields, then the start of the image load.
Region_new(m, r, doc) ==
    LET g == [name |-> doc.name, imageLoc |-> doc.imageLoc,
              resizedByImage |-> (doc.w < 0 \/ doc.h < 0),
              x |-> doc.x, y |-> doc.y,
              w |-> IF doc.w < 0 THEN 0 ELSE doc.w,
              h |-> IF doc.h < 0 THEN 0 ELSE doc.h,
              image |-> "", imageComplete |-> FALSE,
              loaded |-> FALSE, loadError |-> FALSE]
    IN  Region__startImageLoad([m EXCEPT !.regs[r] = g], r)

\* the setter of Region.imageLoc
Region_set_imageLoc(m, r, v) ==
    IF v # m.regs[r].imageLoc
    THEN Region__startImageLoad([m EXCEPT !.regs[r].imageLoc = v], r)
    ELSE m

\* the placeholder of Region.pick, filled in: the half-open box test
Region_pick_completed(g, localX, localY) ==
    /\ 0 <= localX /\ localX < g.w
    /\ 0 <= localY /\ localY < g.h

\* Region.pick
Region_pick(g, localX, localY) ==
    IF build = "completed" THEN Region_pick_completed(g, localX, localY)
    ELSE FALSE

----------------------------------------------------------------------------
(* Binding *)

\* the placeholder of EventSpec.bindRegion, filled in: look the name up
EventSpec_bindRegion_hole(regionName) ==
    IF build = "completed" THEN IndexOfName(RegionDocs, regionName, 1) ELSE 0

\* a binding that excuses every specification of kind any, whatever its name,
\* and no specification of kind release_none
EventSpec_bindRegion_anyKind(evtType, regionName) ==
    IF regionName = "*" THEN [region |-> 0, err |-> FALSE]
    ELSE IF EventSpec_bindRegion_hole(regionName) # 0
    THEN [region |-> EventSpec_bindRegion_hole(regionName), err |-> FALSE]
    ELSE IF evtType = "nevermatch" \/ evtType = "any"
    THEN [region |-> 0, err |-> FALSE]
    ELSE [region |-> 0, err |-> TRUE]

\* EventSpec.bindRegion: the bound region (0 = undefined) and whether a
\* diagnostic is emitted
EventSpec_bindRegion(evtType, regionName) ==
    IF regionName = "*" THEN [region |-> 0, err |-> FALSE]
    ELSE IF EventSpec_bindRegion_hole(regionName) # 0
    THEN [region |-> EventSpec_bindRegion_hole(regionName), err |-> FALSE]
    ELSE IF evtType = "nevermatch" THEN [region |-> 0, err |-> FALSE]
    ELSE IF (evtType = "release_none" \/ evtType = "any") /\ regionName = ""
    THEN [region |-> 0, err |-> FALSE]
    ELSE [region |-> 0, err |-> TRUE]

\* the placeholder of Transition.bindTarget, filled in: look the name up
Transition_bindTarget_hole(targetName, stateList) ==
    IF build = "completed" THEN IndexOfName(stateList, targetName, 1) ELSE 0

\* Transition.bindTarget: the bound target (0 = undefined) and whether a
\* diagnostic is emitted
Transition_bindTarget(targetName, stateList) ==
    IF Transition_bindTarget_hole(targetName, stateList) # 0
    THEN [target |-> Transition_bindTarget_hole(targetName, stateList),
          err |-> FALSE]
    ELSE [target |-> 0, err |-> TRUE]

\* a binding that takes no account of the kind of the action: every name
\* that is the name of no region gets a diagnostic
Action_bindRegion_strict(actType, onRegionName) ==
    IF IndexOfName(RegionDocs, onRegionName, 1) # 0
    THEN [region |-> IndexOfName(RegionDocs, onRegionName, 1), err |-> FALSE]
    ELSE [region |-> 0, err |-> TRUE]

\* Action.bindRegion: the bound region (0 = undefined) and whether a
\* diagnostic is emitted
Action_bindRegion(actType, onRegionName) ==
    IF IndexOfName(RegionDocs, onRegionName, 1) # 0
    THEN [region |-> IndexOfName(RegionDocs, onRegionName, 1), err |-> FALSE]
    ELSE IF actType \in {"none", "print", "print_event"}
    THEN [region |-> 0, err |-> FALSE]
    ELSE [region |-> 0, err |-> TRUE]

\* one transition after the loop body of FSM._finalize
BoundTransition(t, stateList) ==
    [targetName |-> t.target,
     target |-> Transition_bindTarget(t.target, stateList).target,
     onEvent |-> [evtType |-> t.evtType, regionName |-> t.region,
                  region |-> EventSpec_bindRegion(t.evtType, t.region).region],
     actions |-> [i \in 1 .. Len(t.actions) |->
                    [actType |-> t.actions[i].act,
                     onRegionName |-> t.actions[i].region,
                     onRegion |-> Action_bindRegion(t.actions[i].act,
                                                    t.actions[i].region).region,
                     param |-> t.actions[i].param]]]

\* the diagnostics binding one transition emits
BindingErrs(t, stateList) ==
    (IF Transition_bindTarget(t.target, stateList).err
     THEN {[kind |-> "state", name |-> t.target]} ELSE {})
    \cup (IF EventSpec_bindRegion(t.evtType, t.region).err
          THEN {[kind |-> "eventRegion", name |-> t.region]} ELSE {})
    \cup { [kind |-> "actionRegion", name |-> t.actions[i].region] :
             i \in { j \in 1 .. Len(t.actions) :
                       Action_bindRegion(t.actions[j].act,
                                         t.actions[j].region).err } }

\* FSM._finalize: the states with every transition bound
FSM__finalize(stateList) ==
    [s \in 1 .. Len(stateList) |->
        [name |-> stateList[s].name,
         transitions |->
            [i \in 1 .. Len(stateList[s].transitions) |->
                BoundTransition(stateList[s].transitions[i], stateList)]]]

FinalizeErrs(stateList) ==
    UNION { UNION { BindingErrs(stateList[s].transitions[i], stateList) :
                      i \in 1 .. Len(stateList[s].transitions) } :
              s \in 1 .. Len(stateList) }

----------------------------------------------------------------------------
(* Matching *)

\* an event specification whose region name failed to bind
EventSpec_unresolved(es) ==
    /\ es.region = 0
    /\ es.regionName # "*"
    /\ ~ (es.regionName = "" /\ es.evtType \in {"any", "release_none"})

\* the placeholder of EventSpec.match, filled in
EventSpec_match_completed(es, evtType, regn) ==
    IF es.evtType = "nevermatch" THEN FALSE
    ELSE IF EventSpec_unresolved(es) THEN FALSE
    ELSE IF es.evtType = "any"
    THEN IF es.region # 0 THEN regn = es.region
         ELSE IF es.regionName = "*" THEN regn # 0
         ELSE TRUE
    ELSE /\ evtType = es.evtType
         /\ \/ es.evtType = "release_none"
            \/ (es.region # 0 /\ regn = es.region)
            \/ (es.region = 0 /\ es.regionName = "*" /\ regn # 0)

\* a match that compares the event kinds and nothing else
EventSpec_match_kindOnly(es, evtType, regn) ==
    es.evtType = "any" \/ evtType = es.evtType

\* EventSpec.match
EventSpec_match(es, evtType, regn) ==
    IF build = "completed" THEN EventSpec_match_completed(es, evtType, regn)
    ELSE FALSE

\* the placeholder of Transition.match, filled in: ask the event specification
Transition_match_completed(t, evtType, regn) ==
    EventSpec_match(t.onEvent, evtType, regn)

\* Transition.match
Transition_match(t, evtType, regn) ==
    IF build = "completed" THEN Transition_match_completed(t, evtType, regn)
    ELSE FALSE

----------------------------------------------------------------------------
(* Actions and the FSM step *)

\* an execute that, for an image action without a bound region, falls back
\* on the region of the event
Action_execute_eventRegion(m, a, evtType, evtReg) ==
    LET n == [m EXCEPT !.executed = Append(@, a), !.ranIn = Append(@, m.cur)]
        r == IF a.onRegion # 0 THEN a.onRegion ELSE evtReg
    IN  IF a.actType = "set_image" /\ r # 0
        THEN Region_set_imageLoc(n, r, a.param)
        ELSE IF a.actType = "clear_image" /\ r # 0
        THEN Region_set_imageLoc(n, r, "")
        ELSE n

\* Action.execute.  The emoji actions write a field that no other code of
\* the model reads, and move_region has no branch: they change nothing here.
Action_execute(m, a, evtType, evtReg) ==
    LET n == [m EXCEPT !.executed = Append(@, a), !.ranIn = Append(@, m.cur)]
    IN  IF a.actType = "none" THEN n
        ELSE IF a.actType = "set_image"
        THEN IF a.onRegion # 0
             THEN Region_set_imageLoc(n, a.onRegion, a.param) ELSE n
        ELSE IF a.actType = "clear_image"
        THEN IF a.onRegion # 0
             THEN Region_set_imageLoc(n, a.onRegion, "") ELSE n
        ELSE n

RECURSIVE FSM_executeAll(_, _, _, _, _)
\* the loop over trans.actions in FSM.actOnEvent, from action i on
FSM_executeAll(m, acts, i, evtType, reg) ==
    IF i > Len(acts) THEN m
    ELSE FSM_executeAll(Action_execute(m, acts[i], evtType, reg),
                        acts, i + 1, evtType, reg)

RECURSIVE FSM_lastMatch(_, _, _, _)
\* a scan that keeps the last transition that matches instead of the first
FSM_lastMatch(ts, i, evtType, reg) ==
    IF i > Len(ts) THEN 0
    ELSE IF FSM_lastMatch(ts, i + 1, evtType, reg) # 0
    THEN FSM_lastMatch(ts, i + 1, evtType, reg)
    ELSE IF Transition_match(ts[i], evtType, reg) THEN i
    ELSE 0

RECURSIVE FSM_firstMatch(_, _, _, _)
\* the loop over the current state's transitions in FSM.actOnEvent: the index
\* of the first transition from i on that matches, 0 if none does
FSM_firstMatch(ts, i, evtType, reg) ==
    IF i > Len(ts) THEN 0
    ELSE IF Transition_match(ts[i], evtType, reg) THEN i
    ELSE FSM_firstMatch(ts, i + 1, evtType, reg)

\* one scan of the transitions of state m.cur, taking the first that matches
FSM_scanOnce(m, evtType, reg, i) ==
    IF i = 0 THEN m
    ELSE LET t == states[m.cur].transitions[i]
         IN  [FSM_executeAll(m, t.actions, 1, evtType, reg)
                EXCEPT !.cur = t.target,
                       !.fired = Append(m.fired, <<m.cur, i>>)]

\* a step that does not return after the transition it takes: the same event
\* is then tried on the transitions of the new current state
FSM_actOnEvent_again(m, evtType, reg) ==
    IF m.cur = 0 THEN m
    ELSE LET n == FSM_scanOnce(m, evtType, reg,
                     FSM_firstMatch(states[m.cur].transitions, 1, evtType, reg))
         IN  IF n.cur = 0 \/ n.fired = m.fired THEN n
             ELSE FSM_scanOnce(n, evtType, reg,
                     FSM_firstMatch(states[n.cur].transitions, 1, evtType, reg))

\* a step whose loop, when nothing matched, goes on with the last transition
\* it looked at
FSM_actOnEvent_fallThrough(m, evtType, reg) ==
    IF m.cur = 0 THEN m
    ELSE LET ts == states[m.cur].transitions
             i  == FSM_firstMatch(ts, 1, evtType, reg)
         IN  FSM_scanOnce(m, evtType, reg, IF i = 0 THEN Len(ts) ELSE i)

\* a step that takes an undefined current state for the start state
FSM_actOnEvent_fromStart(m, evtType, reg) ==
    IF m.cur = 0 /\ Len(states) = 0 THEN m
    ELSE LET n == IF m.cur = 0 THEN [m EXCEPT !.cur = 1] ELSE m
         IN  FSM_scanOnce(n, evtType, reg,
                 FSM_firstMatch(states[n.cur].transitions, 1, evtType, reg))

\* a step that moves to the target before it executes the actions
FSM_actOnEvent_moveFirst(m, evtType, reg) ==
    IF m.cur = 0 THEN m
    ELSE LET ts == states[m.cur].transitions
             i  == FSM_firstMatch(ts, 1, evtType, reg)
         IN  IF i = 0 THEN m
             ELSE FSM_executeAll(
                     [m EXCEPT !.cur = ts[i].target,
                               !.fired = Append(m.fired, <<m.cur, i>>)],
                     ts[i].actions, 1, evtType, reg)

\* FSM.actOnEvent
FSM_actOnEvent(m, evtType, reg) ==
    IF m.cur = 0 THEN m
    ELSE LET ts == states[m.cur].transitions
             i  == FSM_firstMatch(ts, 1, evtType, reg)
         IN  IF i = 0 THEN m
             ELSE [FSM_executeAll(m, ts[i].actions, 1, evtType, reg)
                     EXCEPT !.cur = ts[i].target,
                            !.fired = Append(m.fired, <<m.cur, i>>)]

\* a start state that is the last state of the list
FSM_startState_last(stateList) == Len(stateList)

\* the start state the FSM constructor and FSM._finalize choose: the first
\* state of the list (0 = undefined, for an empty list)
FSM_startState(stateList) == IF Len(stateList) > 0 THEN 1 ELSE 0

\* a reset that leaves the current state as it is
FSM_reset_keeps(m) == m

\* FSM.reset
FSM_reset(m) == [m EXCEPT !.cur = FSM_startState(states)]

----------------------------------------------------------------------------
(* FSMInteractor: pick and the dispatch of raw samples *)

RECURSIVE FSMInteractor_pick_completed(_, _, _, _)
\* the placeholder of FSMInteractor.pick, filled in: the regions from r down
\* to the first drawn whose box holds the point, last drawn first
FSMInteractor_pick_completed(rs, r, localX, localY) ==
    IF r = 0 THEN <<>>
    ELSE (IF Region_pick(rs[r], localX - rs[r].x, localY - rs[r].y)
          THEN <<r>> ELSE <<>>)
         \o FSMInteractor_pick_completed(rs, r - 1, localX, localY)

\* FSMInteractor.pick
FSMInteractor_pick(rs, localX, localY) ==
    IF build = "completed"
    THEN FSMInteractor_pick_completed(rs, Len(RegionDocs), localX, localY)
    ELSE <<>>

InSeq(x, q) == \E i \in 1 .. Len(q) : q[i] = x

RECURSIVE EventsFor(_, _, _, _)
\* one event of kind evtType for each region of q that is (keep = TRUE) or
\* is not (keep = FALSE) in other, in the order of q
EventsFor(evtType, q, other, keep) ==
    IF q = <<>> THEN <<>>
    ELSE (IF InSeq(Head(q), other) = keep
          THEN << [evtType |-> evtType, reg |-> Head(q)] >> ELSE <<>>)
         \o EventsFor(evtType, Tail(q), other, keep)

\* the placeholder of FSMInteractor.dispatchRawEvent, filled in: the events
\* one raw sample is translated into, given the previous pick list
RawEvents_completed(what, pickList, prev) ==
    IF what = "move"
    THEN EventsFor("exit", prev, pickList, FALSE)
         \o EventsFor("enter", pickList, prev, FALSE)
         \o EventsFor("move_inside", pickList, prev, TRUE)
    ELSE IF what = "press" THEN EventsFor("press", pickList, <<>>, FALSE)
    ELSE IF pickList = <<>> THEN << [evtType |-> "release_none", reg |-> 0] >>
    ELSE EventsFor("release", pickList, <<>>, FALSE)

RECURSIVE DeliverAll(_, _)
\* each event given to FSM.actOnEvent, one after the other
DeliverAll(m, evts) ==
    IF evts = <<>> THEN m
    ELSE DeliverAll(FSM_actOnEvent(m, Head(evts).evtType, Head(evts).reg),
                    Tail(evts))

\* FSMInteractor.dispatchRawEvent: the events it delivers
FSMInteractor_rawEvents(what, localX, localY) ==
    IF build = "completed"
    THEN RawEvents_completed(what, FSMInteractor_pick(regs, localX, localY),
                             inside)
    ELSE <<>>

\* a bookkeeping that is never brought up to date
FSMInteractor_bookkeeping_stale(what, localX, localY) == inside

\* FSMInteractor.dispatchRawEvent: the bookkeeping it leaves
FSMInteractor_bookkeeping(what, localX, localY) ==
    IF build = "completed" /\ what = "move"
    THEN FSMInteractor_pick(regs, localX, localY)
    ELSE inside

----------------------------------------------------------------------------
(* Building from a json document: Check, Err.emit and the fromJson methods *)

\* A json value: its typeof tag t and, for a string or a number, its value.
Str(s)  == [t |-> "string", s |-> s, n |-> 0]
NumV(n) == [t |-> "number", s |-> "", n |-> n]
Undef   == [t |-> "undefined", s |-> "", n |-> 0]
Null    == [t |-> "null", s |-> "", n |-> 0]
Arr(items) == [t |-> "array", items |-> items]

Nullish(v) == v.t \in {"null", "undefined"}

\* v.k: undefined when v has no such property (reading a property of null or
\* undefined throws, which the callers test with Nullish before)
Get(v, k) == IF v.t = "object" /\ k \in DOMAIN v THEN v[k] ELSE Undef

\* a ?? b
Coalesce(v, d) == IF Nullish(v) THEN d ELSE v

\* p is what a build has done so far: p.errs the diagnostics logged, p.threw
\* whether an exception has ended it, p.m the regions and image loads.

\* Err.emit, handled by Err.handle as Err.handleMethod says
Err_emit(p, d) ==
    IF p.threw THEN p
    ELSE IF handleMethod = "throw" THEN [p EXCEPT !.threw = TRUE]
    ELSE [p EXCEPT !.errs = Append(@, d)]

\* a TypeError raised by reading a property of null or undefined
Throw(p) == [p EXCEPT !.threw = TRUE]

\* Check.stringVal
Check_stringVal(p, v, errLoc) ==
    IF v.t = "string" THEN [p |-> p, val |-> v.s]
    ELSE [p |-> Err_emit(p, [kind |-> "type", name |-> errLoc]), val |-> ""]

\* Check.numberVal
Check_numberVal(p, v, errLoc) ==
    IF v.t = "number" THEN [p |-> p, val |-> v.n]
    ELSE [p |-> Err_emit(p, [kind |-> "type", name |-> errLoc]), val |-> 0]

\* Check.limitedString
Check_limitedString(p, v, validStrings, defaultValue, errLoc) ==
    IF v.t = "string" /\ v.s \in validStrings THEN [p |-> p, val |-> v.s]
    ELSE [p |-> Err_emit(p, [kind |-> "value", name |-> errLoc]),
          val |-> defaultValue]

\* a statement "const x = v; ..." : the rest of the method, F, runs on the
\* value v has when the statement is reached
Bind(v, F(_)) == CHOOSE out \in { F(x) : x \in {v} } : TRUE

\* Action.fromJson
Action_fromJson(p, jsonVal) ==
    IF Nullish(jsonVal) THEN [p |-> Throw(p), val |-> Act("none", "", "")]
    ELSE Bind(Check_limitedString(p, Get(jsonVal, "act"), ActionTypes,
                                  "none", "Action.act"), LAMBDA a :
         Bind(Check_stringVal(a.p, Coalesce(Get(jsonVal, "region"), Str("")),
                              "Action.region"), LAMBDA r :
         Bind(Check_stringVal(r.p, Coalesce(Get(jsonVal, "param"), Str("")),
                              "Action.param"), LAMBDA q :
         [p |-> q.p, val |-> Act(a.val, r.val, q.val)])))

RECURSIVE Actions_fromJson(_, _, _, _)
\* the loop over trans.actions in Transition.fromJson, from element i on
Actions_fromJson(p, items, i, out) ==
    IF i > Len(items) \/ p.threw THEN [p |-> p, val |-> out]
    ELSE Bind(Action_fromJson(p, items[i]), LAMBDA a :
         Actions_fromJson(a.p, items, i + 1, Append(out, a.val)))

\* EventSpec.fromJson
EventSpec_fromJson(p, evt) ==
    IF Nullish(evt) THEN [p |-> Throw(p), evtType |-> "nevermatch", region |-> ""]
    ELSE Bind(Check_limitedString(p, Get(evt, "evtType"), EventTypes,
                                  "nevermatch", "EventSpec.evtType"), LAMBDA k :
         Bind(Check_stringVal(k.p, Get(evt, "region"), "EventSpec.region"),
              LAMBDA r :
         [p |-> r.p, evtType |-> k.val, region |-> r.val]))

\* what Transition.fromJson leaves in trans.actions when it is undefined
Transition_fromJson_missingActions == Arr(<<>>)

\* a loop over trans.actions that takes the elements out of the array
Transition_fromJson_shifting(trans, missing, raw) ==
    IF missing \/ raw.t = "array"
    THEN [k \in DOMAIN trans \cup {"actions"} |->
            IF k = "actions" THEN Arr(<<>>) ELSE trans[k]]
    ELSE trans

\* trans as Transition.fromJson leaves it: "actions" assigned when missing
Transition_fromJson_leaves(trans, missing, raw) ==
    IF missing
    THEN [k \in DOMAIN trans \cup {"actions"} |->
            IF k = "actions" THEN raw ELSE trans[k]]
    ELSE trans

\* Transition.fromJson: the transition, and trans as the method leaves it
Transition_fromJson(p, trans) ==
    IF Nullish(trans)
    THEN [p |-> Throw(p), val |-> Tr("", "nevermatch", "", <<>>), doc |-> trans]
    ELSE Bind(Check_stringVal(p, Get(trans, "target"), "Transition.target"),
              LAMBDA g :
         Bind(EventSpec_fromJson(g.p, Get(trans, "onEvent")), LAMBDA e :
         Bind(/\ ~ e.p.threw
              /\ trans.t = "object"
              /\ Get(trans, "actions").t = "undefined", LAMBDA missing :
         Bind(IF missing THEN Transition_fromJson_missingActions
              ELSE Get(trans, "actions"), LAMBDA raw :
         Bind(IF raw.t = "array"
              THEN Actions_fromJson(e.p, raw.items, 1, <<>>)
              ELSE [p |-> Err_emit(e.p, [kind |-> "notArray",
                                         name |-> "Transition.actions"]),
                    val |-> <<>>], LAMBDA a :
         [p |-> a.p,
          val |-> Tr(g.val, e.evtType, e.region, a.val),
          doc |-> Transition_fromJson_leaves(trans, missing, raw)])))))

RECURSIVE Transitions_fromJson(_, _, _, _, _)
\* the loop over state.transitions in State.fromJson, from element i on
Transitions_fromJson(p, items, i, out, docs) ==
    IF i > Len(items) \/ p.threw
    THEN [p |-> p, val |-> out,
          docs |-> docs \o SubSeq(items, i, Len(items))]
    ELSE Bind(Transition_fromJson(p, items[i]), LAMBDA x :
         Transitions_fromJson(x.p, items, i + 1, Append(out, x.val),
                              Append(docs, x.doc)))

\* State.fromJson: the state, and the json state as the method leaves it
State_fromJson(p, state) ==
    Bind(Check_stringVal(p, Get(state, "name"), "State.name"), LAMBDA n :
    Bind(Get(state, "transitions"), LAMBDA raw :
    IF raw.t = "array"
    THEN Bind(Transitions_fromJson(n.p, raw.items, 1, <<>>, <<>>), LAMBDA x :
         [p |-> x.p,
          val |-> [name |-> n.val, transitions |-> x.val],
          doc |-> [state EXCEPT !.transitions = Arr(x.docs)]])
    ELSE [p |-> Err_emit(n.p, [kind |-> "notArray",
                               name |-> "State.transitions"]),
          val |-> [name |-> n.val, transitions |-> <<>>],
          doc |-> state]))

\* Region.fromJson, then the Region constructor for region number r
Region_fromJson(p, reg, r) ==
    Bind(Check_numberVal(p, Coalesce(Get(reg, "x"), NumV(0)), "Region.x"),
         LAMBDA x :
    Bind(Check_numberVal(x.p, Coalesce(Get(reg, "y"), NumV(0)), "Region.y"),
         LAMBDA y :
    Bind(Check_numberVal(y.p, Coalesce(Get(reg, "w"), NumV(0 - 1)),
                         "Region.w"), LAMBDA w :
    Bind(Check_numberVal(w.p, Coalesce(Get(reg, "h"), NumV(0 - 1)),
                         "Region.h"), LAMBDA h :
    Bind(Check_stringVal(h.p, Coalesce(Get(reg, "imageLoc"), Str("")),
                         "Region.imageLoc"), LAMBDA i :
    IF i.p.threw THEN i.p
    ELSE [i.p EXCEPT !.m = Region_new(@, r,
             [name |-> Get(reg, "name"), x |-> x.val, y |-> y.val,
              w |-> w.val, h |-> h.val, imageLoc |-> i.val])])))))

RECURSIVE FSM_fromJson_regions(_, _, _, _, _)
\* the loop over fsm.regions in FSM.fromJson, from element i on; allNames are
\* the names seen, n the number of regions kept
FSM_fromJson_regions(p, items, i, allNames, n) ==
    IF i > Len(items) \/ p.threw THEN [p |-> p, n |-> n]
    ELSE IF Nullish(items[i]) THEN [p |-> Throw(p), n |-> n]
    ELSE IF Get(items[i], "name") \in allNames
    THEN Bind(Err_emit(p, [kind |-> "duplicateRegion",
                           name |-> Get(items[i], "name").s]), LAMBDA q :
         FSM_fromJson_regions(q, items, i + 1, allNames, n))
    ELSE Bind(Region_fromJson(p, items[i], n + 1), LAMBDA q :
         FSM_fromJson_regions(q, items, i + 1,
                              allNames \cup {Get(items[i], "name")},
                              IF q.threw THEN n ELSE n + 1))

RECURSIVE FSM_fromJson_states(_, _, _, _, _, _)
\* the loop over fsm.states in FSM.fromJson, from element i on
FSM_fromJson_states(p, items, i, allNames, out, docs) ==
    IF i > Len(items) \/ p.threw
    THEN [p |-> p, val |-> out, docs |-> docs \o SubSeq(items, i, Len(items))]
    ELSE IF Nullish(items[i])
    THEN [p |-> Throw(p), val |-> out,
          docs |-> docs \o SubSeq(items, i, Len(items))]
    ELSE IF Get(items[i], "name") \in allNames
    THEN Bind(Err_emit(p, [kind |-> "duplicateState",
                           name |-> Get(items[i], "name").s]), LAMBDA q :
         FSM_fromJson_states(q, items, i + 1, allNames, out,
                             Append(docs, items[i])))
    ELSE Bind(State_fromJson(p, items[i]), LAMBDA x :
         FSM_fromJson_states(x.p, items, i + 1,
                             allNames \cup {Get(items[i], "name")},
                             Append(out, x.val), Append(docs, x.doc)))

\* FSM.fromJson on document fsm, with the image cache and the loads in flight
\* as they are: what the build emitted, whether it threw, the FSM it returned
\* and the document as the build leaves it
FSM_fromJson(fsm) ==
    Bind([errs |-> <<>>, threw |-> FALSE,
          m |-> [regs |-> [r \in 1 .. 4 |-> Blank],
                 pending |-> pending, cache |-> cache,
                 damage |-> <<>>]], LAMBDA p0 :
    Bind(Get(fsm, "regions"), LAMBDA rr :
    Bind(IF rr.t = "array"
         THEN FSM_fromJson_regions(p0, rr.items, 1, {}, 0)
         ELSE [p |-> Err_emit(p0, [kind |-> "notArray",
                                   name |-> "FSM.regions"]), n |-> 0],
         LAMBDA r :
    Bind(Get(fsm, "states"), LAMBDA ss :
    Bind(IF ss.t = "array" /\ Len(ss.items) = 0
         THEN Err_emit(r.p, [kind |-> "noStates", name |-> "FSM.states"])
         ELSE r.p, LAMBDA p1 :
    Bind(IF ss.t = "array"
         THEN FSM_fromJson_states(p1, ss.items, 1, {}, <<>>, <<>>)
         ELSE [p |-> Err_emit(r.p, [kind |-> "notArray",
                                    name |-> "FSM.states"]),
               val |-> <<>>, docs |-> <<>>], LAMBDA x :
    Bind(FinalizeErrs(x.val), LAMBDA bindErrs :
    Bind(x.p.threw \/ (handleMethod = "throw" /\ bindErrs # {}), LAMBDA threw :
    [threw |-> threw,
     errs |-> x.p.errs,
     bindErrs |-> IF threw THEN {} ELSE bindErrs,
     regions |-> IF threw THEN <<>>
                 ELSE [k \in 1 .. r.n |-> x.p.m.regs[k]],
     states |-> IF threw THEN <<>> ELSE FSM__finalize(x.val),
     cur |-> IF threw THEN 0 ELSE FSM_startState(x.val),
     pending |-> x.p.m.pending,
     cache |-> x.p.m.cache,
     damage |-> x.p.m.damage,
     doc |-> IF ss.t = "array"
             THEN [fsm EXCEPT !.states = Arr(x.docs)] ELSE fsm]))))))))

----------------------------------------------------------------------------
(* The json documents FSM.fromJson is called on *)

RawRegion(d) ==
    [t |-> "object", name |-> Str(d.name), x |-> NumV(d.x), y |-> NumV(d.y),
     w |-> NumV(d.w), h |-> NumV(d.h), imageLoc |-> Str(d.imageLoc)]

RawAct(a) ==
    [t |-> "object", act |-> Str(a.act), region |-> Str(a.region),
     param |-> Str(a.param)]

RawTr(tr) ==
    [t |-> "object", target |-> Str(tr.target),
     onEvent |-> [t |-> "object", evtType |-> Str(tr.evtType),
                  region |-> Str(tr.region)],
     actions |-> Arr([i \in 1 .. Len(tr.actions) |-> RawAct(tr.actions[i])])]

RawState(name, rawTransitions) ==
    [t |-> "object", name |-> Str(name), transitions |-> Arr(rawTransitions)]

\* the object without its property k
Without(obj, k) == [j \in DOMAIN obj \ {k} |-> obj[j]]

RawRegions == [i \in 1 .. Len(RegionDocs) |-> RawRegion(RegionDocs[i])]

\* the "regions" of a document: the three regions; with r1 declared again;
\* with a null or a number among them; with an image locator that is a number
JsonRegionLists ==
    { Arr(RawRegions),
      Arr(Append(RawRegions,
                 [RawRegions[1] EXCEPT !.imageLoc = Str("two.png")])),
      Arr(Append(RawRegions, Null)),
      Arr(Append(RawRegions, NumV(7))),
      Arr([RawRegions EXCEPT ![2].imageLoc = NumV(5)]) }

RawT1 == RawTr(MasterList[2])
RawT2 == RawTr(MasterList[1])
RawS1 == RawState("s1", <<RawTr(SecondState.transitions[1])>>)

\* the "states" of a document: well formed (the second with a transition that
\* has no "actions"), malformed in one place each, and with an action of a
\* kind only the compiled Action.js lists
JsonStateLists ==
    { Arr(<<RawState("s0", <<RawT1, RawT2>>), RawS1>>),
      Arr(<<RawState("s0", <<RawT1, Without(RawT2, "actions")>>), RawS1>>),
      Arr(<<RawState("s0", <<RawTr(MasterList[4])>>), RawS1>>),
      Arr(<<RawState("s0", <<RawT1>>), RawS1, RawState("s0", <<RawT2>>)>>),
      Arr(<<[RawState("s0", <<RawT1>>) EXCEPT !.name = NumV(1)],
            [RawS1 EXCEPT !.name = NumV(2)]>>),
      NumV(3),
      Undef,
      Arr(<<>>),
      Arr(<<RawState("s0", <<RawT1>>), Null>>),
      Arr(<<RawState("s0", <<RawT1>>), NumV(9)>>),
      Arr(<<[RawState("s0", <<>>) EXCEPT !.transitions = Str("x")], RawS1>>),
      Arr(<<RawState("s0", <<RawT1, Null>>), RawS1>>),
      Arr(<<RawState("s0", <<Without(RawT1, "onEvent"), RawT2>>), RawS1>>),
      Arr(<<RawState("s0", <<[RawT1 EXCEPT !.onEvent.evtType = Str("click")]>>),
            RawS1>>),
      Arr(<<RawState("s0", <<[RawT1 EXCEPT !.onEvent =
                                 Without(RawT1.onEvent, "region")]>>), RawS1>>),
      Arr(<<RawState("s0", <<[RawT1 EXCEPT !.actions =
                                 Arr(<<[RawAct(Act("set_image", "r1", "two.png"))
                                          EXCEPT !.act = Str("explode")]>>)]>>),
            RawS1>>),
      Arr(<<RawState("s0", <<[RawT1 EXCEPT !.actions =
                                 Arr(<<RawAct(Act("set_emoji", "r1", "x"))>>)]>>),
            RawS1>>),
      Arr(<<RawState("s0", <<[RawT1 EXCEPT !.actions = Str("x")]>>), RawS1>>),
      Arr(<<RawState("s0", <<[RawT1 EXCEPT !.actions = Null]>>), RawS1>>),
      Arr(<<RawState("s0", <<[RawT1 EXCEPT !.actions = Arr(<<Null>>)]>>),
            RawS1>>),
      Arr(<<RawState("s0", <<[RawT1 EXCEPT !.target = NumV(5)]>>), RawS1>>) }

JsonDocs ==
    { [t |-> "object", regions |-> r, states |-> s] :
        r \in JsonRegionLists, s \in JsonStateLists }

----------------------------------------------------------------------------
(* Root: damage, redraw and the dispatch of canvas events *)

\* the length of the script of the children of one call on the Root
MaxChildCalls == 5

\* Root._children: two FSMInteractor objects, by their x position
Children == << [x |-> 0], [x |-> 1] >>

\* the bit of a button in MouseEvent.buttons: primary 1, secondary 2
ButtonBit(button) == IF button = 0 THEN 1 ELSE 2

\* The mouse events the canvas delivers: a mousedown has the bit of its button
\* set in buttons, a mouseup has it clear, a mousemove has button 0.  pageX
\* is offsetX plus the left edge of the canvas in the page (0 or 1).  Events
\* outside the canvas are not delivered, so any event can follow any other.
MouseEvents ==
    { e \in [type : {"mousedown", "mouseup", "mousemove"}, button : {0, 2},
             buttons : 0 .. 3, offsetX : 0 .. 2, pageX : 0 .. 3] :
        /\ e.pageX - e.offsetX \in {0, 1}
        /\ \/ e.type = "mousedown"
              /\ (e.buttons \div ButtonBit(e.button)) % 2 = 1
           \/ e.type = "mouseup"
              /\ (e.buttons \div ButtonBit(e.button)) % 2 = 0
           \/ e.type = "mousemove" /\ e.button = 0 }

\* new MouseEvent(type, init): the members of init copied; the new event has
\* not been dispatched, so its offsetX is its pageX
MouseEvent(type, init) ==
    [init EXCEPT !.type = type, !.offsetX = init.pageX]

\* what the children do when the Root calls them: script[i] says whether the
\* i-th call of a child (dispatchRawEvent or draw) declares damage
Scripts == [1 .. MaxChildCalls -> BOOLEAN]

\* before any event
NoEvent == [type |-> "", button |-> 0, buttons |-> 0, offsetX |-> 0,
            pageX |-> 0]

\* The Root constructor.  log is the trace of the last call, script what is
\* left of the script of the children, evt the event of the last call and
\* was the value of _lastButtonsState the call found.
Root_new ==
    [damaged |-> FALSE, batching |-> FALSE, lastButtonsState |-> 0,
     log |-> <<>>, script |-> <<>>, evt |-> NoEvent, was |-> 0]

\* an entry of the trace, with the two flags as they are when it is written
Traced(rt, e, op, child, kind, x) ==
    [rt EXCEPT !.log = Append(@, [e |-> e, op |-> op, child |-> child,
                                  kind |-> kind, x |-> x,
                                  damaged |-> rt.damaged,
                                  batching |-> rt.batching])]

RECURSIVE Root__redraw(_), Root__damageResponse(_), Root_damage(_),
          ChildCalled(_), Root__redraw_completed(_, _)

\* A call of a child by the Root.  In the sources as they are
\* FSMInteractor.dispatchRawEvent does nothing; filled in, it may end in
\* FSMInteractor.damage, which calls parent.damage()
ChildCalled(rt) ==
    IF build = "skeleton" \/ rt.script = <<>> THEN rt
    ELSE IF Head(rt.script)
    THEN Root_damage([rt EXCEPT !.script = Tail(@)])
    ELSE [rt EXCEPT !.script = Tail(@)]

\* the placeholder in the try block of Root._redraw, filled in: each child is
\* drawn, from the first to the last
Root__redraw_completed(rt, i) ==
    IF i > Len(Children) THEN rt
    ELSE Bind(ChildCalled(Traced(rt, "draw", "redraw", i, "", 0)), LAMBDA r :
         Root__redraw_completed(r, i + 1))

\* Root._redraw
Root__redraw(rt) ==
    Bind(rt.batching, LAMBDA saveBatching :
    Bind(Traced([rt EXCEPT !.batching = TRUE], "begin", "redraw", 0, "", 0),
         LAMBDA r1 :
    Bind(IF build = "completed" THEN Root__redraw_completed(r1, 1) ELSE r1,
         LAMBDA r2 :
    Root__damageResponse(Traced([r2 EXCEPT !.batching = saveBatching],
                                "end", "redraw", 0, "", 0)))))

\* Root._damageResponse
Root__damageResponse(rt) ==
    IF rt.damaged /\ ~ rt.batching
    THEN Root__redraw([rt EXCEPT !.damaged = FALSE])
    ELSE rt

\* a damage that leaves the flag as it is while damage is batched
Root_damage_dropped(rt) ==
    IF rt.batching THEN Traced(rt, "damage", "", 0, "", 0)
    ELSE Root__damageResponse(
             Traced([rt EXCEPT !.damaged = TRUE], "damage", "", 0, "", 0))

\* Root.damage
Root_damage(rt) ==
    Root__damageResponse(
        Traced([rt EXCEPT !.damaged = TRUE], "damage", "", 0, "", 0))

\* Root._dispatchToChild
Root__dispatchToChild(rt, evt, toChild) ==
    IF evt.type \in {"mousedown", "mouseup"} /\ evt.button # 0 THEN rt
    ELSE ChildCalled(Traced(rt, "dispatch", "handle", toChild,
                            CASE evt.type = "mousedown" -> "press"
                              [] evt.type = "mouseup" -> "release"
                              [] OTHER -> "move",
                            evt.offsetX - Children[toChild].x))

RECURSIVE Root__dispatchToAll(_, _, _)
\* the loops of Root._handleCanvasEvent over the children, from the last to
\* the first
Root__dispatchToAll(rt, evt, chIndx) ==
    IF chIndx < 1 THEN rt
    ELSE Bind(Root__dispatchToChild(rt, evt, chIndx), LAMBDA r :
         Root__dispatchToAll(r, evt, chIndx - 1))

\* a handler that leaves batching as it finds it
Root__handleCanvasEvent_unbatched(rt, evt) ==
    Bind(Traced(rt, "begin", "handle", 0, "", 0),
         LAMBDA r1 :
    Bind(IF r1.lastButtonsState = 1 /\ evt.buttons % 2 = 0
            /\ ~ (evt.type = "mouseup" /\ evt.button = 0)
         THEN Root__dispatchToAll(r1, MouseEvent("mouseup", evt), Len(Children))
         ELSE r1, LAMBDA r2 :
    Bind(Root__dispatchToAll([r2 EXCEPT !.lastButtonsState = evt.buttons % 2],
                             evt, Len(Children)), LAMBDA r3 :
    Root__damageResponse(Traced(r3, "end", "handle", 0, "", 0)))))

\* Root._handleCanvasEvent
Root__handleCanvasEvent(rt, evt) ==
    Bind(rt.batching, LAMBDA saveBatching :
    Bind(Traced([rt EXCEPT !.batching = TRUE], "begin", "handle", 0, "", 0),
         LAMBDA r1 :
    Bind(IF r1.lastButtonsState = 1 /\ evt.buttons % 2 = 0
            /\ ~ (evt.type = "mouseup" /\ evt.button = 0)
         THEN Root__dispatchToAll(r1, MouseEvent("mouseup", evt), Len(Children))
         ELSE r1, LAMBDA r2 :
    Bind(Root__dispatchToAll([r2 EXCEPT !.lastButtonsState = evt.buttons % 2],
                             evt, Len(Children)), LAMBDA r3 :
    Root__damageResponse(Traced([r3 EXCEPT !.batching = saveBatching],
                                "end", "handle", 0, "", 0))))))

----------------------------------------------------------------------------
(* The state machine *)

LoadKeys == RegionIds \X (Locators \ {""})

RECURSIVE SumOver(_, _)
SumOver(f, S) ==
    IF S = {} THEN 0
    ELSE LET k == CHOOSE x \in S : TRUE IN f[k] + SumOver(f, S \ {k})

InFlight(p) == SumOver(p, LoadKeys)

\* the program state as the record the operators work on
Current == [cur |-> currentState, regs |-> regs, pending |-> pending,
            cache |-> cache, errs |-> errs, fired |-> <<>>, executed |-> <<>>,
            ranIn |-> <<>>, damage |-> <<>>]

\* the program state after a call that ended in m
Becomes(m) ==
    /\ InFlight(m.pending) <= MaxLoads
    /\ currentState' = m.cur
    /\ regs' = m.regs
    /\ pending' = m.pending
    /\ cache' = m.cache
    /\ errs' = m.errs
    /\ fired' = m.fired
    /\ executed' = m.executed
    /\ ranIn' = m.ranIn
    /\ damageCalls' = m.damage

Call(op, evtType, reg, x, y, result, picked) ==
    [op |-> op, evtType |-> evtType, reg |-> reg, x |-> x, y |-> y,
     from |-> currentState, result |-> result, picked |-> picked]

RECURSIVE EnteredAfter(_, _)
\* the regions entered and not left, after the events evts are delivered
\* with the regions S entered and not left before
EnteredAfter(S, evts) ==
    IF evts = <<>> THEN S
    ELSE EnteredAfter(
             IF Head(evts).evtType = "enter" THEN S \cup {Head(evts).reg}
             ELSE IF Head(evts).evtType = "exit" THEN S \ {Head(evts).reg}
             ELSE S, Tail(evts))

RECURSIVE NewRegions(_, _)
\* the regions constructed one after the other, before the FSM
NewRegions(m, r) ==
    IF r > Len(RegionDocs) THEN m
    ELSE NewRegions(Region_new(m, r, RegionDocs[r]), r + 1)

\* Region._imageCache is shared by all FSMs of the page: when this one is built
\* it is empty, or already holds the image of r3
EmptyCache == [l \in Locators |-> "absent"]
WarmCache == [EmptyCache EXCEPT !["one.png"] = "one.png"]

Constructed(b, docs, caches) ==
    /\ build = b
    /\ \E doc \in docs :
         /\ states = FSM__finalize(doc)
         /\ errs = FinalizeErrs(doc)
    /\ currentState = FSM_startState(states)
    /\ \E c \in caches :
         LET m == NewRegions([regs |-> [r \in RegionIds |-> Blank],
                              pending |-> [k \in LoadKeys |-> 0],
                              cache |-> c, damage |-> <<>>], 1)
         IN  /\ regs = m.regs
             /\ damageCalls = m.damage
             /\ pending = m.pending
             /\ cache = m.cache
    /\ inside = <<>>
    /\ lastCall = Call("new", "", 0, 0, 0, FALSE, <<>>)
    /\ delivered = <<>>
    /\ fired = <<>>
    /\ executed = <<>>
    /\ ranIn = <<>>
    /\ built = <<>>
    /\ root = Root_new
    /\ entered = {}

\* an FSM made by the constructor, Err.handleMethod at its default
InitFor(b, docs, caches) ==
    /\ Constructed(b, docs, caches)
    /\ handleMethod = "message"
    /\ json = Undef

\* FSM.fromJson(json)
FromJson ==
    /\ Len(built) < MaxBuilds
    /\ \E x \in {FSM_fromJson(json)} :
           /\ built' = Append(built,
                  [threw |-> x.threw, errs |-> x.errs, bindErrs |-> x.bindErrs,
                   regions |-> x.regions, states |-> x.states, cur |-> x.cur])
           /\ json' = x.doc
           /\ pending' = x.pending
           /\ cache' = x.cache
           /\ damageCalls' = x.damage
           /\ errs' = errs \cup { x.errs[i] : i \in 1 .. Len(x.errs) }
                           \cup x.bindErrs
    /\ lastCall' = Call("fromJson", "", 0, 0, 0, FALSE, <<>>)
    /\ delivered' = <<>>
    /\ fired' = <<>>
    /\ executed' = <<>>
    /\ ranIn' = <<>>
    /\ UNCHANGED <<root, entered, build, handleMethod, states, currentState, regs, inside>>

\* fsm.actOnEvent(evtType, reg) called directly
ActOnEvent(evtType, reg) ==
    /\ Becomes(FSM_actOnEvent(Current, evtType, reg))
    /\ lastCall' = Call("actOnEvent", evtType, reg, 0, 0, FALSE, <<>>)
    /\ delivered' = << [evtType |-> evtType, reg |-> reg] >>
    /\ UNCHANGED <<root, entered, build, handleMethod, json, built, states, inside>>

\* fsm.reset()
Reset ==
    /\ Becomes(FSM_reset(Current))
    /\ lastCall' = Call("reset", "", 0, 0, 0, FALSE, <<>>)
    /\ delivered' = <<>>
    /\ UNCHANGED <<root, entered, build, handleMethod, json, built, states, inside>>

\* states[1].transitions[1].actions[k].execute(evtType, reg) called directly
Execute(k, evtType, reg) ==
    /\ Becomes(Action_execute(Current, states[1].transitions[1].actions[k],
                               evtType, reg))
    /\ lastCall' = Call("execute", evtType, reg, k, 0, FALSE, <<>>)
    /\ delivered' = <<>>
    /\ UNCHANGED <<root, entered, build, handleMethod, json, built, states, inside>>

\* interactor.dispatchRawEvent(what, localX, localY)
DispatchRawEvent(what, localX, localY) ==
    /\ Becomes(DeliverAll(Current, FSMInteractor_rawEvents(what, localX, localY)))
    /\ delivered' = FSMInteractor_rawEvents(what, localX, localY)
    /\ inside' = FSMInteractor_bookkeeping(what, localX, localY)
    /\ lastCall' = Call("dispatchRawEvent", what, 0, localX, localY, FALSE,
                        inside)
    /\ entered' = EnteredAfter(entered,
                               FSMInteractor_rawEvents(what, localX, localY))
    /\ UNCHANGED <<root, build, handleMethod, json, built, states>>

\* interactor.pick(localX, localY)
Pick(localX, localY) ==
    /\ damageCalls' = <<>>
    /\ lastCall' = Call("pick", "", 0, localX, localY, FALSE,
                        FSMInteractor_pick(regs, localX, localY))
    /\ delivered' = <<>>
    /\ fired' = <<>>
    /\ executed' = <<>>
    /\ ranIn' = <<>>
    /\ UNCHANGED <<root, entered, build, handleMethod, json, built, states, errs, currentState, regs, pending, cache,
                   inside>>

\* region.pick(localX, localY) on region r
RegionPick(r, localX, localY) ==
    /\ damageCalls' = <<>>
    /\ lastCall' = Call("Region.pick", "", r, localX, localY,
                        Region_pick(regs[r], localX, localY), <<>>)
    /\ delivered' = <<>>
    /\ fired' = <<>>
    /\ executed' = <<>>
    /\ ranIn' = <<>>
    /\ UNCHANGED <<root, entered, build, handleMethod, json, built, states, errs, currentState, regs, pending, cache,
                   inside>>

\* states[1].transitions[1].onEvent.match(evtType, reg)
Match(evtType, reg) ==
    /\ damageCalls' = <<>>
    /\ lastCall' = Call("match", evtType, reg, 0, 0,
                        EventSpec_match(states[1].transitions[1].onEvent,
                                        evtType, reg), <<>>)
    /\ delivered' = <<>>
    /\ fired' = <<>>
    /\ executed' = <<>>
    /\ ranIn' = <<>>
    /\ UNCHANGED <<root, entered, build, handleMethod, json, built, states, errs, currentState, regs, pending, cache,
                   inside>>

\* region r's imageLoc = v, assigned directly
SetImageLoc(r, v) ==
    /\ LET m == Region_set_imageLoc(Current, r, v)
       IN  /\ InFlight(m.pending) <= MaxLoads + 1
           /\ regs' = m.regs
           /\ pending' = m.pending
           /\ cache' = m.cache
           /\ damageCalls' = m.damage
    /\ lastCall' = Call("set imageLoc", v, r, 0, 0, FALSE, <<>>)
    /\ delivered' = <<>>
    /\ fired' = <<>>
    /\ executed' = <<>>
    /\ ranIn' = <<>>
    /\ UNCHANGED <<root, entered, build, handleMethod, json, built, states, errs,
                   currentState, inside>>

\* The load of loc started by region r succeeds: the onload handler of
\* Region._startImageLoad, then the rest of the method after its await.
ImageLoaded(r, loc) ==
    /\ pending[<<r, loc>>] > 0
    /\ LET g  == regs[r]
           g1 == Region__resizeFromImage(
                    [g EXCEPT !.loaded = TRUE,
                              !.imageComplete = (g.image = loc \/ @)])
       IN  /\ regs' = [regs EXCEPT ![r] = g1]
           /\ cache' = [cache EXCEPT ![g1.imageLoc] =
                           IF g1.loadError \/ g1.image = "" THEN "undef"
                           ELSE g1.image]
    /\ pending' = [pending EXCEPT ![<<r, loc>>] = @ - 1]
    /\ damageCalls' = <<r>>
    /\ lastCall' = Call("onload", loc, r, 0, 0, FALSE, <<>>)
    /\ delivered' = <<>>
    /\ fired' = <<>>
    /\ executed' = <<>>
    /\ ranIn' = <<>>
    /\ UNCHANGED <<root, entered, build, handleMethod, json, built, states, errs, currentState, inside>>

\* The load of loc started by region r fails: the onerror handler of
\* Region._startImageLoad; the promise is rejected, so the rest of the method
\* does not run.
ImageFailed(r, loc) ==
    /\ pending[<<r, loc>>] > 0
    /\ regs' = [regs EXCEPT ![r].loadError = TRUE, ![r].loaded = TRUE]
    /\ errs' = errs \cup {[kind |-> "image", name |-> regs[r].imageLoc]}
    /\ pending' = [pending EXCEPT ![<<r, loc>>] = @ - 1]
    /\ damageCalls' = <<>>
    /\ lastCall' = Call("onerror", loc, r, 0, 0, FALSE, <<>>)
    /\ delivered' = <<>>
    /\ fired' = <<>>
    /\ executed' = <<>>
    /\ ranIn' = <<>>
    /\ UNCHANGED <<root, entered, build, handleMethod, json, built, states, currentState, cache, inside>>

\* The canvas delivers evt: root._handleCanvasEvent(evt), the children
\* behaving as script says
HandleCanvasEvent(evt, script) ==
    /\ build = "skeleton" => script = [i \in 1 .. MaxChildCalls |-> FALSE]
    /\ root' = Root__handleCanvasEvent(
                   [root EXCEPT !.log = <<>>, !.evt = evt,
                                !.was = root.lastButtonsState,
                                !.script = script], evt)
    /\ UNCHANGED <<build, handleMethod, json, built, states, errs,
                   currentState, regs, pending, cache, inside, lastCall,
                   delivered, fired, executed, ranIn, damageCalls, entered>>

\* root.damage() called while the Root is idle, as at the end of an image
\* load, the children behaving as script says
Damage(script) ==
    /\ build = "skeleton" => script = [i \in 1 .. MaxChildCalls |-> FALSE]
    /\ root' = Root_damage([root EXCEPT !.log = <<>>, !.evt = NoEvent,
                                        !.was = root.lastButtonsState,
                                        !.script = script])
    /\ UNCHANGED <<build, handleMethod, json, built, states, errs,
                   currentState, regs, pending, cache, inside, lastCall,
                   delivered, fired, executed, ranIn, damageCalls, entered>>

Regs0 == {0} \cup RegionIds

\* Calls of the FSM, while the images its actions ask for load or fail
Next ==
    \/ \E evtType \in EventTypes, reg \in Regs0 : ActOnEvent(evtType, reg)
    \/ Reset
    \/ \E r \in RegionIds, loc \in Locators \ {""} : ImageLoaded(r, loc)
    \/ \E r \in RegionIds, loc \in Locators \ {""} : ImageFailed(r, loc)

\* the sources as they are
Init == InitFor("skeleton", StateDocs, {EmptyCache, WarmCache})
Spec == Init /\ [][Next]_vars

\* the sources with their placeholders filled in
InitDoc == InitFor("completed", StateDocs, {WarmCache})
SpecDoc == InitDoc /\ [][Next]_vars

\* Raw samples given to the interactor, while images load or fail
NextD ==
    \/ \E what \in RawKinds, x \in 0 .. MaxCoord, y \in 0 .. 1 :
          DispatchRawEvent(what, x, y)
    \/ \E x \in 0 .. MaxCoord, y \in 0 .. 1 : Pick(x, y)
    \/ \E r \in RegionIds, loc \in Locators \ {""} : ImageLoaded(r, loc)
    \/ \E r \in RegionIds, loc \in Locators \ {""} : ImageFailed(r, loc)

InitD == InitFor("skeleton", DispatchDocs, {EmptyCache, WarmCache})
SpecD == InitD /\ [][NextD]_vars

InitDDoc == InitFor("completed", DispatchDocs, {EmptyCache, WarmCache})
SpecDDoc == InitDDoc /\ [][NextD]_vars

\* Calls of the pure methods (match and the two pick methods), on FSMs with
\* one transition of every kind of event specification, while the image of r3
\* loads or fails.
NextQ ==
    \/ \E x \in 0 .. MaxCoord, y \in 0 .. 1 : Pick(x, y)
    \/ \E r \in RegionIds, x \in (0 - 1) .. MaxCoord, y \in (0 - 1) .. 2 :
          RegionPick(r, x, y)
    \/ \E evtType \in EventTypes, reg \in Regs0 : Match(evtType, reg)
    \/ \E r \in RegionIds, loc \in Locators \ {""} : ImageLoaded(r, loc)
    \/ \E r \in RegionIds, loc \in Locators \ {""} : ImageFailed(r, loc)

InitQ == InitFor("skeleton", MatchDocs, {EmptyCache})
SpecQ == InitQ /\ [][NextQ]_vars

InitQDoc == InitFor("completed", MatchDocs, {EmptyCache})
SpecQDoc == InitQDoc /\ [][NextQ]_vars

\* Images: the image locators of the regions assigned, and the loads ending
\* the regions whose image locator is assigned: r1, of declared size, and r3,
\* sized by its image
AssignedRegions == { r \in RegionIds : RegionDocs[r].name \in {"r1", "r3"} }

NextL ==
    \/ \E r \in AssignedRegions, v \in Locators : SetImageLoc(r, v)
    \/ \E r \in RegionIds, loc \in Locators \ {""} : ImageLoaded(r, loc)
    \/ \E r \in RegionIds, loc \in Locators \ {""} : ImageFailed(r, loc)

InitL == InitFor("skeleton", {<<>>}, {EmptyCache})

SpecL == InitL /\ [][NextL]_vars

\* Actions executed directly, with or without an event region, while the
\* images they ask for load or fail
NextA ==
    \/ \E k \in 1 .. Len(ActionPool), reg \in {0, 1} : Execute(k, "press", reg)
    \/ \E r \in RegionIds, loc \in Locators \ {""} : ImageLoaded(r, loc)
    \/ \E r \in RegionIds, loc \in Locators \ {""} : ImageFailed(r, loc)

InitA == InitFor("skeleton", ActionDocs, {EmptyCache, WarmCache})

SpecA == InitA /\ [][NextA]_vars

\* The Root: canvas events and damage declared while it is idle
NextR ==
    \/ \E evt \in MouseEvents, script \in Scripts :
          HandleCanvasEvent(evt, script)
    \/ \E script \in Scripts : Damage(script)

InitR == InitFor("skeleton", {<<>>}, {EmptyCache})
SpecR == InitR /\ [][NextR]_vars

\* the same with the placeholders filled in, the events at one position
NextRDoc ==
    \/ \E evt \in { e \in MouseEvents : e.offsetX = 1 /\ e.pageX = 2 },
          script \in Scripts :
          HandleCanvasEvent(evt, script)
    \/ \E script \in Scripts : Damage(script)

InitRDoc == InitFor("completed", {<<>>}, {EmptyCache})
SpecRDoc == InitRDoc /\ [][NextRDoc]_vars

\* Building: FSM.fromJson called on a document, and called again on the
\* document as the first call left it
NextJ == FromJson

InitJ ==
    /\ Constructed("skeleton", {<<>>}, {EmptyCache, WarmCache})
    /\ handleMethod \in {"message", "throw"}
    /\ json \in JsonDocs

SpecJ == InitJ /\ [][NextJ]_vars

InitJDoc ==
    /\ Constructed("completed", {<<>>}, {EmptyCache, WarmCache})
    /\ handleMethod \in {"message", "throw"}
    /\ json \in JsonDocs

SpecJDoc == InitJDoc /\ [][NextJ]_vars

----------------------------------------------------------------------------
(* FSM.actOnEvent *)

\* the transitions of state s that match the event
Matching(s, evtType, reg) ==
    { i \in 1 .. Len(states[s].transitions) :
        Transition_match(states[s].transitions[i], evtType, reg) }

Least(S) == CHOOSE i \in S : \A j \in S : i <= j

\* the last call was fsm.actOnEvent in a defined current state
Stepped == lastCall.op = "actOnEvent" /\ lastCall.from # 0

\* the transitions of the state the last call started in that match its event
MatchedByCall == Matching(lastCall.from, lastCall.evtType, lastCall.reg)

\* the transition the last call took (when it took exactly one)
TakenByCall == states[fired[1][1]].transitions[fired[1][2]]

\* C1: when two or more transitions of the current state match the event
\* given to FSM.actOnEvent, the call takes the earliest of them and no
\* other: the actions executed are that transition's, in their order, and
\* the current state becomes that transition's target.
C1_FirstMatchWins ==
    (Stepped /\ Cardinality(MatchedByCall) >= 2) =>
        /\ fired = << <<lastCall.from, Least(MatchedByCall)>> >>
        /\ executed =
             states[lastCall.from].transitions[Least(MatchedByCall)].actions
        /\ currentState =
             states[lastCall.from].transitions[Least(MatchedByCall)].target

\* a call with two matching transitions that differ in their actions
C1_Witness ==
    /\ Stepped
    /\ Cardinality(MatchedByCall) >= 2
    /\ fired # <<>>
    /\ \E j \in MatchedByCall :
          states[lastCall.from].transitions[j].actions # executed

\* C2: a call of FSM.actOnEvent takes at most one transition; when it has
\* taken one, the current state is that transition's target and the actions
\* executed are that transition's only, whatever the transitions of the new
\* current state are.
C2_AtMostOneTransition ==
    lastCall.op = "actOnEvent" =>
        /\ Len(fired) <= 1
        /\ Len(fired) = 1 =>
              /\ fired[1][1] = lastCall.from
              /\ currentState = TakenByCall.target
              /\ executed = TakenByCall.actions

\* a call that took a transition to another state, one of whose transitions
\* matches the same event
C2_Witness ==
    /\ Stepped
    /\ Len(fired) = 1
    /\ currentState # 0
    /\ currentState # lastCall.from
    /\ Matching(currentState, lastCall.evtType, lastCall.reg) # {}

C4_NoMatchNoChange ==
    [][ ( /\ lastCall'.op = "actOnEvent"
          /\ currentState # 0
          /\ Matching(currentState, lastCall'.evtType, lastCall'.reg) = {} )
        => ( /\ currentState' = currentState
             /\ regs' = regs
             /\ pending' = pending
             /\ cache' = cache
             /\ errs' = errs
             /\ fired' = <<>>
             /\ executed' = <<>> ) ]_vars

\* a call nothing matched, in a state that has a transition with a bound
\* set_image action
C4_Witness ==
    /\ Stepped
    /\ MatchedByCall = {}
    /\ \E i \in 1 .. Len(states[lastCall.from].transitions) :
          \E k \in 1 .. Len(states[lastCall.from].transitions[i].actions) :
             /\ states[lastCall.from].transitions[i].actions[k].actType
                   = "set_image"
             /\ states[lastCall.from].transitions[i].actions[k].onRegion # 0

----------------------------------------------------------------------------
(* FSMInteractor.pick and FSMInteractor.dispatchRawEvent *)

\* the point lies in the box of region g, in the interactor's coordinates
BoxHolds(g, x, y) ==
    g.x <= x /\ x < g.x + g.w /\ g.y <= y /\ y < g.y + g.h

RECURSIVE RegionsAt(_, _, _)
\* the regions from r down to the first drawn whose box holds the point
RegionsAt(r, x, y) ==
    IF r = 0 THEN <<>>
    ELSE (IF BoxHolds(regs[r], x, y) THEN <<r>> ELSE <<>>)
         \o RegionsAt(r - 1, x, y)

\* the regions under the point of the last call, last drawn first
UnderPoint == RegionsAt(Len(RegionDocs), lastCall.x, lastCall.y)

RECURSIVE Group(_, _, _)
\* one event of kind evtType for each region of q that is in S, in q's order
Group(evtType, q, S) ==
    IF q = <<>> THEN <<>>
    ELSE (IF Head(q) \in S
          THEN << [evtType |-> evtType, reg |-> Head(q)] >> ELSE <<>>)
         \o Group(evtType, Tail(q), S)

Members(q) == { q[i] : i \in 1 .. Len(q) }

\* the last call was dispatchRawEvent with a raw sample of this kind
Dispatched(what) ==
    lastCall.op = "dispatchRawEvent" /\ lastCall.evtType = what

\* C5: for a raw move sample FSMInteractor.dispatchRawEvent delivers the
\* exit events (regions left: in the previous pick list, not under the point),
\* then the enter events (regions under the point, not in the previous list),
\* then the move_inside events (regions in both), each group top-to-bottom.
C5_MoveOrder ==
    Dispatched("move") =>
        delivered =
            Group("exit", lastCall.picked,
                  Members(lastCall.picked) \ Members(UnderPoint))
            \o Group("enter", UnderPoint,
                     Members(UnderPoint) \ Members(lastCall.picked))
            \o Group("move_inside", UnderPoint, Members(lastCall.picked))

\* C6: FSMInteractor.pick returns exactly the regions whose box holds the
\* point, last drawn first; a raw press delivers one press per such region in
\* that order, and a raw move from outside every region one enter per such
\* region in that order.
C6_PickOrder ==
    /\ lastCall.op = "pick" => lastCall.picked = UnderPoint
    /\ Dispatched("press") =>
          delivered = Group("press", UnderPoint, RegionIds)
    /\ (Dispatched("move") /\ lastCall.picked = <<>>) =>
          delivered = Group("enter", UnderPoint, RegionIds)

\* C7: a raw release sample with no region under the point delivers exactly
\* one event, release_none, carrying no region.
C7_ReleaseNone ==
    (Dispatched("release") /\ UnderPoint = <<>>) =>
        delivered = << [evtType |-> "release_none", reg |-> 0] >>

----------------------------------------------------------------------------
(* EventSpec.match and Region.pick *)

\* the event specification the calls of match are made on
Asked == states[1].transitions[1].onEvent

\* C8: match on an EventSpec of kind nevermatch returns false, for every
\* event kind, with or without a region, whatever the region name of the
\* specification and whatever diagnostics binding emitted.
C8_NeverMatch ==
    (lastCall.op = "match" /\ Asked.evtType = "nevermatch") =>
        lastCall.result = FALSE

\* match asked of a nevermatch specification that names a region, with an
\* event of kind nevermatch carrying that region, after binding emitted a
\* diagnostic
C8_Witness ==
    /\ lastCall.op = "match"
    /\ Asked.evtType = "nevermatch"
    /\ Asked.regionName = "r1"
    /\ lastCall.evtType = "nevermatch"
    /\ lastCall.reg = 1
    /\ errs # {}

\* C9: match on an EventSpec of kind any with region name "*" returns true
\* for every event that carries a region, whatever its kind.
C9_AnyMatches ==
    ( /\ lastCall.op = "match"
      /\ Asked.evtType = "any"
      /\ Asked.regionName = "*"
      /\ lastCall.reg # 0 )
    => lastCall.result = TRUE

\* C10: Region.pick(px, py) is true exactly when 0 <= px < w and
\* 0 <= py < h for the size the region has at the call.
C10_HalfOpenBox ==
    lastCall.op = "Region.pick" =>
        lastCall.result =
            ( /\ 0 <= lastCall.x /\ lastCall.x < regs[lastCall.reg].w
              /\ 0 <= lastCall.y /\ lastCall.y < regs[lastCall.reg].h )

----------------------------------------------------------------------------
(* FSM.fromJson *)

\* the FSMs FSM.fromJson has returned
Returned == { k \in 1 .. Len(built) : ~ built[k].threw }

\* C11: in every FSM FSM.fromJson returns, no two regions have the same name
\* and no two states have the same name.
C11_DistinctNames ==
    \A k \in Returned :
        /\ \A i, j \in 1 .. Len(built[k].regions) :
              i # j => built[k].regions[i].name # built[k].regions[j].name
        /\ \A i, j \in 1 .. Len(built[k].states) :
              i # j => built[k].states[i].name # built[k].states[j].name

\* C14: with Err.handleMethod not set to 'throw', FSM.fromJson returns an FSM
\* for every document and never throws.
C14_NeverThrows ==
    handleMethod # "throw" => \A k \in 1 .. Len(built) : ~ built[k].threw

\* what the document declares of a region
Declared(g) ==
    [name |-> g.name, imageLoc |-> g.imageLoc, x |-> g.x, y |-> g.y,
     resizedByImage |-> g.resizedByImage,
     w |-> IF g.resizedByImage THEN 0 ELSE g.w,
     h |-> IF g.resizedByImage THEN 0 ELSE g.h]

\* two builds with the same outcome
SameBuild(a, b) ==
    /\ a.threw = b.threw
    /\ a.errs = b.errs
    /\ a.bindErrs = b.bindErrs
    /\ a.states = b.states
    /\ a.cur = b.cur
    /\ Len(a.regions) = Len(b.regions)
    /\ \A i \in 1 .. Len(a.regions) :
          Declared(a.regions[i]) = Declared(b.regions[i])

\* the first build found nothing wrong with the form of the document
FirstBuildClean ==
    Len(built) >= 2 /\ ~ built[1].threw /\ built[1].errs = <<>>

\* C17: FSM.fromJson run a second time on a valid document, as the first run
\* left it, returns an FSM with the same regions, states, transitions,
\* bindings and current state, and emits the same diagnostics.
C17_BuildTwice ==
    FirstBuildClean => SameBuild(built[1], built[2])

\* two builds of a valid document whose start state has a transition with
\* actions and one without
C17_Witness ==
    /\ FirstBuildClean
    /\ Len(built[2].states) = 2
    /\ \E i, j \in 1 .. Len(built[2].states[1].transitions) :
          /\ built[2].states[1].transitions[i].actions = <<>>
          /\ built[2].states[1].transitions[j].actions # <<>>

----------------------------------------------------------------------------
(* Region._startImageLoad *)

\* the loads of locator loc in flight
LoadsOf(loc) == SumOver([k \in LoadKeys |-> IF k[2] = loc THEN pending[k] ELSE 0],
                        LoadKeys)

\* C12: whatever regions request a locator, and also while a load of it is
\* in flight, at most one load of that locator has been issued.
C12_OneLoadPerLocator ==
    \A loc \in Locators \ {""} : LoadsOf(loc) <= 1

\* C13: when the load of a locator has failed, the region that asked for it
\* has loaded = true and loadError = true and the cache records the locator
\* as failed, so that no later request loads it again.
C13_FailureIsRecorded ==
    lastCall.op = "onerror" =>
        /\ regs[lastCall.reg].loaded
        /\ regs[lastCall.reg].loadError
        /\ cache[lastCall.evtType] = "undef"

----------------------------------------------------------------------------
(* FSM.reset, the start state, and the order of a step *)

\* C15: FSM.reset sets the current state to the first state of the state
\* list and changes nothing else: no region, no image load, no cache entry
\* and no diagnostic, and it executes no action.
C15_ResetFrame ==
    [][ lastCall'.op = "reset"
        => ( /\ currentState' = IF Len(states) > 0 THEN 1 ELSE 0
             /\ states' = states
             /\ regs' = regs
             /\ pending' = pending
             /\ cache' = cache
             /\ errs' = errs
             /\ executed' = <<>> ) ]_vars

\* a reset called outside the start state, after an action has given r1 an
\* image
C15_Witness ==
    /\ lastCall.op = "reset"
    /\ lastCall.from # 1
    /\ currentState = 1
    /\ regs[1].imageLoc # ""

\* the FSM has one state, whose only transition loops back to it on any/"*"
SelfLoop ==
    /\ Len(states) = 1
    /\ Len(states[1].transitions) = 1
    /\ states[1].transitions[1].onEvent.evtType = "any"
    /\ states[1].transitions[1].onEvent.regionName = "*"
    /\ states[1].transitions[1].targetName = states[1].name

\* C16: for an FSM of one state with one self-loop on any/"*", the current
\* state is always that state, binding and stepping emit no diagnostic, and
\* every event that carries a region executes the actions of the transition.
C16_SelfLoop ==
    SelfLoop =>
        /\ currentState = 1
        /\ { e \in errs : e.kind # "image" } = {}
        /\ (lastCall.op = "actOnEvent" /\ lastCall.reg # 0) =>
              executed = states[1].transitions[1].actions

\* C18: an FSM returned by FSM.fromJson with a state list that is not empty
\* has the first state of the list as its current (and start) state.
C18_StartsInFirstState ==
    \A k \in Returned : Len(built[k].states) > 0 => built[k].cur = 1

\* an FSM built with two states
C18_Witness ==
    \E k \in Returned : Len(built[k].states) >= 2 /\ built[k].cur = 1

\* C19: FSM.actOnEvent called while the current state is undefined executes
\* no action, changes no region and no image load, and leaves the current
\* state undefined.
C19_UndefinedStateNoOp ==
    [][ (lastCall'.op = "actOnEvent" /\ currentState = 0)
        => ( /\ currentState' = 0
             /\ regs' = regs
             /\ pending' = pending
             /\ cache' = cache
             /\ errs' = errs
             /\ fired' = <<>>
             /\ executed' = <<>> ) ]_vars

\* an event carrying a region given to an FSM that has states and whose
\* current state is undefined
C19_Witness ==
    /\ lastCall.op = "actOnEvent"
    /\ lastCall.from = 0
    /\ lastCall.reg # 0
    /\ Len(states) > 0

\* C20: when FSM.actOnEvent takes a transition, its actions are executed in
\* their declared order, each of them while the current state is still the
\* state the call started in.
C20_ActionsBeforeMove ==
    (Stepped /\ Len(fired) = 1) =>
        /\ executed = TakenByCall.actions
        /\ ranIn = [i \in 1 .. Len(executed) |-> lastCall.from]

\* a transition taken to another state that executed two different actions
C20_Witness ==
    /\ Stepped
    /\ Len(fired) = 1
    /\ currentState # lastCall.from
    /\ Len(executed) >= 2
    /\ executed[1] # executed[2]

----------------------------------------------------------------------------
(* EventSpec.match on bound specifications *)

\* the region the name of the specification names (0 when it names none):
\* the region EventSpec.bindRegion is documented to assign
Named(es) == IndexOfName(regs, es.regionName, 1)

\* the kinds of event that carry a region
RegionKinds == {"press", "release", "enter", "exit", "move_inside"}

\* C21: an EventSpec of kind any whose region name is the name of a region
\* (so that binding resolves it to that region) matches an event exactly when
\* the event carries that region: not an event of another region, and not an
\* event without a region.
C21_AnyBoundToRegion ==
    ( /\ lastCall.op = "match"
      /\ Asked.evtType = "any"
      /\ Named(Asked) # 0 )
    => lastCall.result = (lastCall.reg = Named(Asked))

\* C22: for an EventSpec of a kind other than any and nevermatch whose region
\* name is "*", names a region, or is empty for release_none, match is true
\* exactly when the event kind is the kind of the specification and, for a
\* kind that carries a region, the event's region is the region named or the
\* name is "*"; for release_none no region is compared.
C22_KindAndRegion ==
    ( /\ lastCall.op = "match"
      /\ Asked.evtType \notin {"any", "nevermatch"}
      /\ \/ Asked.regionName = "*"
         \/ Named(Asked) # 0
         \/ (Asked.evtType = "release_none" /\ Asked.regionName = "")
      /\ lastCall.evtType \in RegionKinds => lastCall.reg # 0 )
    => lastCall.result =
          ( /\ lastCall.evtType = Asked.evtType
            /\ \/ Asked.evtType = "release_none"
               \/ Asked.regionName = "*"
               \/ lastCall.reg = Named(Asked) )

----------------------------------------------------------------------------
(* FSMInteractor.dispatchRawEvent: the events of one raw sample *)

\* how many times event e is in the list q
Count(q, e) == Cardinality({ i \in 1 .. Len(q) : q[i] = e })

\* the kind of event a raw move sample owes region r, "" when it owes none:
\* prev are the regions of the previous pick list, now those under the point
MoveKind(r, prev, now) ==
    IF r \in prev /\ r \notin now THEN "exit"
    ELSE IF r \notin prev /\ r \in now THEN "enter"
    ELSE IF r \in prev /\ r \in now THEN "move_inside"
    ELSE ""

\* C23: for a raw move sample with pick list P and previous inside-set S,
\* FSMInteractor.dispatchRawEvent delivers exactly one exit for each region
\* in S and not in P, one enter for each region in P and not in S, one
\* move_inside for each region in both, and no other event; after the call
\* the stored inside-set is P.
C23_MoveEvents ==
    Dispatched("move") =>
        /\ \A r \in RegionIds, k \in EventTypes :
              Count(delivered, [evtType |-> k, reg |-> r]) =
                 IF k = MoveKind(r, Members(lastCall.picked),
                                 Members(UnderPoint))
                 THEN 1 ELSE 0
        /\ \A i \in 1 .. Len(delivered) : delivered[i].reg \in RegionIds
        /\ inside = UnderPoint

\* C24: a raw press (a raw release) over one or more regions delivers exactly
\* one press (one release) for each region of the pick list, in the order of
\* the pick list, and no release_none; a raw press over no region delivers
\* nothing.
C24_PressAndRelease ==
    /\ (Dispatched("press") /\ UnderPoint # <<>>) =>
          delivered = Group("press", UnderPoint, RegionIds)
    /\ (Dispatched("release") /\ UnderPoint # <<>>) =>
          delivered = Group("release", UnderPoint, RegionIds)
    /\ (Dispatched("press") /\ UnderPoint = <<>>) => delivered = <<>>

\* the events the comment of dispatchRawEvent asks for the last raw sample
Translation ==
    IF lastCall.evtType = "move"
    THEN Group("exit", lastCall.picked,
               Members(lastCall.picked) \ Members(UnderPoint))
         \o Group("enter", UnderPoint,
                  Members(UnderPoint) \ Members(lastCall.picked))
         \o Group("move_inside", UnderPoint, Members(lastCall.picked))
    ELSE IF lastCall.evtType = "press"
    THEN Group("press", UnderPoint, RegionIds)
    ELSE IF UnderPoint = <<>>
    THEN << [evtType |-> "release_none", reg |-> 0] >>
    ELSE Group("release", UnderPoint, RegionIds)

RECURSIVE StateAfter(_, _)
\* the current state after the events evts, given one after the other to an
\* FSM in state s, each tried on the transitions of the state the one before
\* has left
StateAfter(s, evts) ==
    IF evts = <<>> \/ s = 0 THEN s
    ELSE StateAfter(
            IF Matching(s, Head(evts).evtType, Head(evts).reg) = {} THEN s
            ELSE states[s].transitions[
                    Least(Matching(s, Head(evts).evtType, Head(evts).reg))
                 ].target,
            Tail(evts))

\* C25: the events one raw sample is translated into are given to
\* FSM.actOnEvent one at a time in their order, and each is tried on the
\* transitions of the current state the delivery before it left: the
\* transitions taken form a chain, and the current state after the call is
\* the state the events lead to one after the other.
C25_DeliveredInTurn ==
    lastCall.op = "dispatchRawEvent" =>
        /\ delivered = Translation
        /\ currentState = StateAfter(lastCall.from, delivered)
        /\ \A k \in 1 .. Len(fired) :
              fired[k][1] =
                 IF k = 1 THEN lastCall.from
                 ELSE states[fired[k - 1][1]].transitions[fired[k - 1][2]].target

----------------------------------------------------------------------------
(* Binding: targets, action regions, event regions *)

\* C26: after construction every transition whose target name is the name of
\* a state of the list, declared before or after the transition's own state,
\* has that state as its target, and no target diagnostic is emitted for it;
\* a transition whose target name is the name of no state has an undefined
\* target and a target diagnostic.
C26_TargetsResolve ==
    \A s \in 1 .. Len(states) :
        \A i \in 1 .. Len(states[s].transitions) :
            LET t == states[s].transitions[i]
                n == IndexOfName(states, t.targetName, 1)
                d == [kind |-> "state", name |-> t.targetName]
            IN  /\ n # 0 => (t.target = n /\ d \notin errs)
                /\ n = 0 => (t.target = 0 /\ d \in errs)

\* every action of every transition, as bound
BoundActions ==
    UNION { UNION { { states[s].transitions[i].actions[k] :
                        k \in 1 .. Len(states[s].transitions[i].actions) } :
                    i \in 1 .. Len(states[s].transitions) } :
            s \in 1 .. Len(states) }

\* the kinds of action that use no region
RegionlessKinds == {"none", "print", "print_event"}

\* the diagnostic of Action.bindRegion for a name
ActionDiag(name) == [kind |-> "actionRegion", name |-> name]

\* C27 as stated: after binding, an action of kind none, print or print_event
\* has no resolved region, whatever its region name (the name of a region
\* included), and binding it emitted no diagnostic.
C27_NoRegionKinds ==
    \A a \in BoundActions :
        a.actType \in RegionlessKinds =>
            (a.onRegion = 0 /\ ActionDiag(a.onRegionName) \notin errs)

\* C27 as amended: after binding, an action of kind none, print or
\* print_event has the region its name names as its resolved region, and no
\* resolved region when its name is the name of no region; in both cases
\* binding it emitted no diagnostic.
C27_NoRegionKindsNamed ==
    \A a \in BoundActions :
        a.actType \in RegionlessKinds =>
            /\ a.onRegion = IndexOfName(regs, a.onRegionName, 1)
            /\ ActionDiag(a.onRegionName) \notin errs

\* a print action bound to the region it names has been executed, in an FSM
\* that also has a print_event action naming no region and an image action
\* whose name got a diagnostic
C27_Witness ==
    /\ lastCall.op = "execute"
    /\ executed # <<>>
    /\ executed[1].actType = "print"
    /\ executed[1].onRegion # 0
    /\ \E a \in BoundActions :
          /\ a.actType = "print_event"
          /\ a.onRegionName # ""
          /\ a.onRegion = 0
    /\ \E a \in BoundActions : ActionDiag(a.onRegionName) \in errs

----------------------------------------------------------------------------
(* Action.execute *)

\* the action of the other image kind on the same region with an empty
\* parameter: set_image "" for clear_image, clear_image for set_image ""
Twin(a) ==
    [a EXCEPT !.actType = IF a.actType = "clear_image" THEN "set_image"
                          ELSE "clear_image",
              !.param = ""]

\* a is clear_image, or set_image with an empty parameter, on a bound region
Clears(a) ==
    /\ a.onRegion # 0
    /\ \/ a.actType = "clear_image"
       \/ (a.actType = "set_image" /\ a.param = "")

\* C29: executing clear_image on a bound region and executing set_image with
\* an empty parameter on it are equivalent: from the same state both leave the
\* same regions and image loads, the region has locator "", no image,
\* loaded = true and loadError = false afterwards, and nothing is done when
\* the locator was "" already.
C29_ClearIsSetEmpty ==
    [][ ( /\ lastCall'.op = "execute"
          /\ Clears(executed'[1]) )
        => ( /\ regs' = Action_execute(Current, Twin(executed'[1]),
                                       lastCall'.evtType, lastCall'.reg).regs
             /\ pending' = Action_execute(Current, Twin(executed'[1]),
                                          lastCall'.evtType,
                                          lastCall'.reg).pending
             /\ regs'[executed'[1].onRegion].imageLoc = ""
             /\ regs'[executed'[1].onRegion].image = ""
             /\ regs'[executed'[1].onRegion].loaded
             /\ ~ regs'[executed'[1].onRegion].loadError
             /\ pending' = pending
             /\ regs[executed'[1].onRegion].imageLoc = "" => regs' = regs )
      ]_vars

\* the part of C29 that compares the two actions only
C29_SameEffect ==
    [][ ( /\ lastCall'.op = "execute"
          /\ Clears(executed'[1]) )
        => ( /\ regs' = Action_execute(Current, Twin(executed'[1]),
                                       lastCall'.evtType, lastCall'.reg).regs
             /\ pending' = Action_execute(Current, Twin(executed'[1]),
                                          lastCall'.evtType,
                                          lastCall'.reg).pending
             /\ pending' = pending
             /\ regs[executed'[1].onRegion].imageLoc = "" => regs' = regs )
      ]_vars

\* an image action whose region name resolved to no region
Inert(a) == a.actType \in {"set_image", "clear_image"} /\ a.onRegion = 0

\* the actions of a list that are not such actions, in their order
Effective(acts) == SelectSeq(acts, LAMBDA a : ~ Inert(a))

\* C28: a set_image or clear_image action whose region name resolved to no
\* region got a diagnostic when it was bound, and is inert when executed: the
\* transition that carries it executes all its actions and moves to its
\* target, and regions and image loads end as if the action were not there
\* (unchanged when the transition has no other image action).
C28_UnresolvedActionInert ==
    [][ ( /\ lastCall'.op = "actOnEvent"
          /\ fired' # <<>> )
        => LET t == states[fired'[1][1]].transitions[fired'[1][2]]
               m == FSM_executeAll(Current, Effective(t.actions), 1,
                                   lastCall'.evtType, lastCall'.reg)
           IN  (\E k \in 1 .. Len(t.actions) : Inert(t.actions[k])) =>
                  /\ \A k \in 1 .. Len(t.actions) :
                        Inert(t.actions[k]) =>
                           ActionDiag(t.actions[k].onRegionName) \in errs
                  /\ executed' = t.actions
                  /\ currentState' = t.target
                  /\ regs' = m.regs
                  /\ pending' = m.pending
                  /\ cache' = m.cache
                  /\ errs' = errs
                  /\ (\A k \in 1 .. Len(t.actions) :
                         t.actions[k].actType \in {"set_image", "clear_image"}
                            => Inert(t.actions[k]))
                     => (regs' = regs /\ pending' = pending)
      ]_vars

\* the last call took a transition whose first action is an image action
\* without a region, followed by another action, on an event that carries a
\* region, and moved to the transition's target
C28_Witness ==
    /\ Stepped
    /\ lastCall.reg # 0
    /\ Len(fired) = 1
    /\ Len(TakenByCall.actions) >= 2
    /\ Inert(TakenByCall.actions[1])
    /\ executed = TakenByCall.actions
    /\ TakenByCall.target # 0
    /\ currentState = TakenByCall.target

\* the diagnostic of EventSpec.bindRegion for a name
EventDiag(name) == [kind |-> "eventRegion", name |-> name]

\* the specification needs a region: its kind carries one, or it is of kind
\* any or release_none with a name that is not empty
NeedsRegion(es) ==
    \/ es.evtType \in RegionKinds
    \/ (es.evtType \in {"any", "release_none"} /\ es.regionName # "")

\* C30: an EventSpec that needs a region and whose region name is not "*"
\* and is the name of no region got a diagnostic when it was bound and
\* matches no event; a nevermatch specification, and a release_none or any
\* specification with an empty name, is bound without a diagnostic.
C30_UnresolvedEventRegion ==
    /\ ( /\ NeedsRegion(Asked)
         /\ Asked.regionName # "*"
         /\ Named(Asked) = 0 )
       => /\ EventDiag(Asked.regionName) \in errs
          /\ lastCall.op = "match" => lastCall.result = FALSE
    /\ ( \/ Asked.evtType = "nevermatch"
         \/ (Asked.evtType \in {"any", "release_none"}
               /\ Asked.regionName = "") )
       => EventDiag(Asked.regionName) \notin errs

\* match asked of a press specification that names no region, with a press
\* on a region, after binding emitted its diagnostic
C30_Witness ==
    /\ lastCall.op = "match"
    /\ Asked.evtType = "press"
    /\ Asked.regionName = "zz"
    /\ lastCall.evtType = "press"
    /\ lastCall.reg # 0
    /\ EventDiag("zz") \in errs
    /\ lastCall.result = FALSE

----------------------------------------------------------------------------
(* The vocabularies of a built FSM *)

\* the action kinds of Action.ts and of the document format
DocumentedActionTypes ==
    {"set_image", "clear_image", "none", "print", "print_event"}

\* the transitions of the k-th FSM built
TransitionsOf(k) ==
    UNION { { built[k].states[s].transitions[i] :
                i \in 1 .. Len(built[k].states[s].transitions) } :
            s \in 1 .. Len(built[k].states) }

\* C31: every FSM FSM.fromJson returns contains only event kinds of the eight
\* event kinds and only action kinds of set_image, clear_image, none, print
\* and print_event: a kind outside them has become nevermatch or none.
C31_FixedVocabularies ==
    \A k \in Returned : \A t \in TransitionsOf(k) :
        /\ t.onEvent.evtType \in EventTypes
        /\ \A a \in 1 .. Len(t.actions) :
              t.actions[a].actType \in DocumentedActionTypes

----------------------------------------------------------------------------
(* The current state *)

----------------------------------------------------------------------------
(* Root: rounds, damage and redraws *)

\* the rounds (redraws and input dispatches) in progress after entry i of the
\* trace of the last call on the Root
Depth(i) ==
    Cardinality({ j \in 1 .. i : root.log[j].e = "begin" })
        - Cardinality({ j \in 1 .. i : root.log[j].e = "end" })

\* the entry that begins the round entry j ends
BeginOf(j) ==
    CHOOSE i \in 1 .. j :
        /\ root.log[i].e = "begin"
        /\ \A k \in (i + 1) .. (j - 1) : root.log[k].e # "begin"

\* entry j is followed at once by the start of a redraw
RedrawFollows(j) ==
    /\ j < Len(root.log)
    /\ root.log[j + 1].e = "begin"
    /\ root.log[j + 1].op = "redraw"

\* C32: the Root starts no redraw while a redraw or a round of input dispatch
\* (_handleCanvasEvent) is in progress; damage declared during such a round
\* sets the pending-damage flag and nothing else: batching stays on, no
\* redraw starts, and the flag is still set at the next step of the round.
C32_NoRedrawInRound ==
    \A i \in 1 .. Len(root.log) :
        /\ root.log[i].e = "begin" => Depth(i - 1) = 0
        /\ (root.log[i].e = "damage" /\ Depth(i - 1) > 0) =>
              /\ root.log[i].damaged
              /\ root.log[i].batching
              /\ i < Len(root.log)
              /\ root.log[i + 1].e # "begin"
              /\ root.log[i + 1].damaged

\* a round of input dispatch in which two children declare damage, and the
\* redraw after it, in which a child declares damage again
C32_Witness ==
    /\ root.evt.type = "mousemove"
    /\ Cardinality({ i \in 1 .. Len(root.log) :
                        /\ root.log[i].e = "damage"
                        /\ root.log[BeginOf(i)].op = "handle"
                        /\ Depth(i - 1) > 0 }) = 2
    /\ \E i \in 1 .. Len(root.log) :
          /\ root.log[i].e = "damage"
          /\ Depth(i - 1) > 0
          /\ root.log[BeginOf(i)].op = "redraw"

\* C33: damage is never lost and never answered twice: a round during which
\* damage was declared is followed by one redraw when it completes, a round
\* without damage by none, damage declared outside a round by a redraw at
\* once; and when the Root is idle the pending-damage flag is false and
\* batching is off.
C33_OneRedrawPerRound ==
    /\ ~ root.damaged
    /\ ~ root.batching
    /\ \A j \in 1 .. Len(root.log) :
          /\ root.log[j].e = "end" =>
                ((\E k \in BeginOf(j) .. j : root.log[k].e = "damage")
                    <=> RedrawFollows(j))
          /\ (root.log[j].e = "damage" /\ Depth(j - 1) = 0) =>
                RedrawFollows(j)

\* a call with three redraws: damage declared in the round of dispatch, in
\* the redraw after it and in the redraw after that one, none in the last
C33_Witness ==
    /\ root.evt.type = "mousedown"
    /\ Cardinality({ i \in 1 .. Len(root.log) :
                        root.log[i].e = "begin" /\ root.log[i].op = "redraw" })
          = 3
    /\ root.log[Len(root.log)].e = "end"
    /\ \A k \in BeginOf(Len(root.log)) .. Len(root.log) :
          root.log[k].e # "damage"

----------------------------------------------------------------------------
(* Root: the release that was lost outside the canvas *)

\* the calls of dispatchRawEvent of the last call on the Root, in order
Sent ==
    LET q == SelectSeq(root.log, LAMBDA en : en.e = "dispatch")
    IN  [i \in 1 .. Len(q) |-> <<q[i].child, q[i].kind>>]

\* kind, for every child, from the last to the first
ToEveryChild(kind) ==
    [i \in 1 .. Len(Children) |-> <<Len(Children) + 1 - i, kind>>]

\* the primary button was down at the previous event and is up at this one,
\* which is not the mouseup of the primary button
ReleaseWasLost ==
    /\ root.was = 1
    /\ root.evt.buttons % 2 = 0
    /\ ~ (root.evt.type = "mouseup" /\ root.evt.button = 0)

\* what the event of the last call is for the children
OwnSamples ==
    IF root.evt.type = "mousemove" THEN ToEveryChild("move")
    ELSE IF root.evt.button # 0 THEN <<>>
    ELSE IF root.evt.type = "mousedown" THEN ToEveryChild("press")
    ELSE ToEveryChild("release")

\* C34: when the Root handles a canvas event whose primary-button bit is up
\* while the previous event had it down, and the event is not the mouseup of
\* the primary button, every child gets one substitute release, the last
\* child first, before the event itself; otherwise there is no substitute.
\* (The claim goes on: each press is followed by at most one release per
\* child; the part stated here is already violated.)
C34_SubstituteRelease ==
    root.evt.type # "" =>
        Sent = (IF ReleaseWasLost THEN ToEveryChild("release") ELSE <<>>)
                  \o OwnSamples

----------------------------------------------------------------------------
(* Image loads started by actions *)

\* the regions whose damage() was called during the last call
Damaging == { damageCalls[i] : i \in 1 .. Len(damageCalls) }

\* among the actions q, the only image action on region r is a set_image of
\* locator p
SetsImage(q, r, p) ==
    /\ Cardinality({ i \in 1 .. Len(q) :
                        /\ q[i].actType \in {"set_image", "clear_image"}
                        /\ q[i].onRegion = r }) = 1
    /\ \E i \in 1 .. Len(q) :
          /\ q[i].actType = "set_image"
          /\ q[i].onRegion = r
          /\ q[i].param = p

\* region r is, after the step, as a load that has not completed leaves it:
\* not loaded, of the size it had, and without a call of damage()
NotCompleted(r) ==
    /\ ~ regs'[r].loaded
    /\ regs'[r].w = regs[r].w
    /\ regs'[r].h = regs[r].h
    /\ r \notin { damageCalls'[i] : i \in 1 .. Len(damageCalls') }

----------------------------------------------------------------------------
(* Image loads: completion, resizing and stale completions *)

\* C35: when a load a region started ends, by success or by failure, the
\* bookkeeping of the region is completed: the region is loaded, the cache
\* holds the outcome under the locator of the load, and the region has
\* declared damage.
C35_LoadBookkeeping ==
    lastCall.op \in {"onload", "onerror"} =>
        /\ regs[lastCall.reg].loaded
        /\ cache[lastCall.evtType] # "absent"
        /\ lastCall.reg \in Damaging

\* the width and height of the image object region g holds: those of the
\* picture once its load has completed, 0 before
ImageDims(g) ==
    IF g.imageComplete THEN ImageSize(g.image) ELSE [w |-> 0, h |-> 0]

SameSize(r) == regs'[r].w = regs[r].w /\ regs'[r].h = regs[r].h

\* C37: a region constructed with a negative or absent width or height gets
\* the size of its image when its load first resolves and keeps it through
\* every later load; a region constructed with both dimensions non-negative
\* is never resized.  (A region sized by its image has size 0 x 0 until a
\* load has given it one.)
C37_ResizedOnce ==
    [][\A r \in RegionIds :
          /\ ~ regs[r].resizedByImage => SameSize(r)
          /\ (regs[r].resizedByImage /\ (regs[r].w # 0 \/ regs[r].h # 0)) =>
                SameSize(r)]_vars

\* C37 amended: such a region gets the size of the image it holds every time
\* a load of the region resolves while it holds an image, the first time and
\* after every later change of its locator, and its size changes at no other
\* step; a region constructed with both dimensions non-negative is never
\* resized.
C37_ResizedByEveryLoad ==
    [][\A r \in RegionIds :
          /\ ~ regs[r].resizedByImage => SameSize(r)
          /\ regs[r].resizedByImage =>
                IF /\ regs'[r].image # ""
                   /\ \/ lastCall'.op = "onload" /\ lastCall'.reg = r
                      \/ /\ lastCall'.op = "set imageLoc"
                         /\ lastCall'.reg = r
                         /\ r \in { damageCalls'[i] :
                                      i \in 1 .. Len(damageCalls') }
                THEN /\ regs'[r].w = ImageDims(regs'[r]).w
                     /\ regs'[r].h = ImageDims(regs'[r]).h
                ELSE SameSize(r)]_vars

\* r3, sized 1 x 1 by the load of one.png, has been given the size 2 x 1 by
\* the load of two.png
C37_Witness ==
    /\ lastCall.op = "onload"
    /\ lastCall.reg = 3
    /\ lastCall.evtType = "two.png"
    /\ cache["one.png"] = "one.png"
    /\ regs[3].resizedByImage
    /\ regs[3].w = 2
    /\ regs[3].h = 1

\* C40: the completion of a stale load corrupts neither the region nor the
\* cache: a region with a locator is loaded only if no load of that locator
\* is in flight for it, and a cache entry is written only when a load of the
\* locator it is keyed by has completed, with the image of that locator.
C40_StaleCompletion ==
    [][/\ \A r \in RegionIds :
             (regs'[r].loaded /\ regs'[r].imageLoc # "") =>
                 pending'[<<r, regs'[r].imageLoc>>] = 0
       /\ \A l \in Locators :
             cache'[l] # cache[l] =>
                 /\ lastCall'.op = "onload"
                 /\ lastCall'.evtType = l
                 /\ cache'[l] = l]_vars

----------------------------------------------------------------------------
(* The enter and exit events of a region *)

====
